---- MODULE Spec2Model ----
(***************************************************************************)
(* Model of the webforge request-dispatch core: wf::Route, wf::Router      *)
(* (router.cc), the Processor adapter (processor.cc) and wf::Response      *)
(* (http.cc).  The native call stack of one dispatch is the variable       *)
(* `stack`; every action executes the code of the frame on top of it up to *)
(* the next call it makes or to its return.                                *)
(***************************************************************************)
EXTENDS Integers, Sequences, FiniteSets

VARIABLES
  routes,   \* Router::routes_  : sequence of [route, kind]
  errors,   \* Router::errors_  : status code -> "none" | error handler
  phase,    \* "setup" (registration) or "run" (Handle was called)
  req,      \* the Request of the dispatch
  res,      \* the Response object (fields of wf::Response)
  sink,     \* what the ResponseWriter was asked to do, in order
  stack,    \* native call stack, bottom first
  invs,     \* one record per Middleware invocation (holds the stack_flag)
  termLog,  \* statuses passed to Handle's terminal continuation, in order
  diagLog,  \* synthesized diagnostics written by the Router, in order
  nops,     \* Response operations performed by handler bodies so far
  calls,    \* Response operations made directly on the Response, with results
  replaced, \* <<code, handler>> registered before the latest Error(code, ..)
  hreq,     \* a wf::Request on its own: method, headers, cookies, query, stream
  hres,     \* the header map of a wf::Response on its own
  out,      \* the calls made on the components, each with what it returned
  fs,       \* the file the static responders serve: its modification time
  mini,     \* a wf::Minifier, its worker processes and the threads calling it
  template_cache, \* Renderer::template_cache_: key -> parsed template
  res_cookies, \* Response::cookies_: name -> Cookie descriptor
  worker,   \* the minification worker: its buffer `data` and its `state`
  inner     \* a Router registered as a Middleware of the Router: its tables

\* The state of the router and of the Response it serves.
dispatchVars ==
  <<routes, errors, phase, req, res, sink, stack, invs, termLog, diagLog, nops,
    calls, replaced>>

\* The state of the components modelled on their own.
\* The Renderer, the cookie map of a Response and the minification worker.
partVars == <<template_cache, res_cookies, worker, inner>>

compVars == <<hreq, hres, out, fs, mini, partVars>>

\* What the calls on a Request and on header maps leave alone.
restVars == <<dispatchVars, fs, mini, partVars>>

vars ==
  <<routes, errors, phase, req, res, sink, stack, invs, termLog, diagLog, nops,
    calls, replaced, compVars>>

----------------------------------------------------------------------------
\* Bounds of the model.

MaxRoutes == 2   \* RouteEntries registered before the dispatch
MaxOps == 1      \* Response operations the handler bodies of a dispatch perform

----------------------------------------------------------------------------
\* absl::Status values.

None == "none"

OkStatus == [code |-> "ok", msg |-> ""]

NotFoundError(m) == [code |-> "not_found", msg |-> m]

InternalError(m) == [code |-> "internal", msg |-> m]

UnavailableError(m) == [code |-> "unavailable", msg |-> m]

FailedPreconditionError(m) == [code |-> "failed_precondition", msg |-> m]

IsOk(s) == s.code = "ok"

\* No status yet.
NoStatus == [code |-> None, msg |-> ""]

RanOffMsg == "ran off the end of the middleware stack"

\* The failures a user handler reports in the model.
UserFailures == {InternalError("boom")}

Codes == {"not_found", "internal"}

CodeName(c) ==
  CASE c = "ok" -> "OK"
    [] c = "not_found" -> "NOT_FOUND"
    [] c = "internal" -> "INTERNAL"
    [] c = "unavailable" -> "UNAVAILABLE"
    [] OTHER -> "FAILED_PRECONDITION"

\* absl::Status::ToString: "<CODE>: <message>", or "OK".  Text is a sequence
\* of segments.
StatusToString(s) == IF IsOk(s) THEN <<"OK">> ELSE <<CodeName(s.code), ": ", s.msg>>

DiagPrefix == <<"An internal server error occurred:\n- ">>

DiagSecond ==
  <<"\n\nAdditionally, while handling the above error, another occurred:\n- ">>

Newline == <<"\n">>

HelloBody == <<"Hello, world!\n">>

\* std::string::size of one segment.
SegLen(t) ==
  CASE t = "\n" -> 1
    [] t = "Hello, world!\n" -> 14
    [] t = ": " -> 2
    [] t = "OK" -> 2
    [] t = "NOT_FOUND" -> 9
    [] t = "INTERNAL" -> 8
    [] t = "UNAVAILABLE" -> 11
    [] t = "FAILED_PRECONDITION" -> 19
    [] t = "gone" -> 4
    [] t = "boom" -> 4
    [] t = RanOffMsg -> 39
    [] t = DiagPrefix[1] -> 37
    [] t = DiagSecond[1] -> 68
    [] OTHER -> 0

RECURSIVE DataSize(_)
DataSize(d) == IF d = <<>> THEN 0 ELSE SegLen(Head(d)) + DataSize(Tail(d))

----------------------------------------------------------------------------
\* wf::Route and wf::Request.

\* The requests dispatched in the model, as <<method, path>>.
Requests ==
  {<<"get", "/">>, <<"head", "/">>, <<"post", "/">>, <<"get", "/other">>}

\* Route::Route: no matcher set.
NewRoute == [method |-> None, host |-> None, path |-> None]

RequireMethod(r, m) == [r EXCEPT !.method = m]

RequireHost(r, h) == [r EXCEPT !.host = h]

RequirePath(r, p) == [r EXCEPT !.path = p]

\* CaseInsensitive of httpstrings: the string in lower case.
CaseInsensitive(s) ==
  CASE s \in {"GET", "Get"} -> "get"
    [] s = "HEAD" -> "head"
    [] s \in {"POST", "Post"} -> "post"
    [] s \in {"OPTIONS", "Options"} -> "options"
    [] s \in {"Content-Type", "CONTENT-TYPE"} -> "content-type"
    [] s \in {"Content-Length", "CONTENT-LENGTH"} -> "content-length"
    [] s \in {"Cookie", "COOKIE"} -> "cookie"
    [] s \in {"X-Token", "X-TOKEN"} -> "x-token"
    [] s = "If-Modified-Since" -> "if-modified-since"
    [] s = "Last-Modified" -> "last-modified"
    [] OTHER -> s

\* Request::Request.
NewRequest == [method |-> "get", host |-> None, path |-> "/"]

\* Request::Method(method), Request::Header("Host", h), Request::Path(path).
SetMethod(q, m) == [q EXCEPT !.method = CaseInsensitive(m)]

SetHost(q, h) == [q EXCEPT !.host = h]

SetPath(q, p) == [q EXCEPT !.path = p]

\* Match that lets a request without Host header pass a host matcher.
MatchMissingHostPasses(r, q) ==
  /\ (r.method # None /\ r.method # q.method)
       => (r.method = "get" /\ q.method = "head")
  /\ (r.host # None /\ q.host # None) => (q.host = r.host)
  /\ (r.path # None /\ r.path # q.path) => FALSE

\* Match without the exception made for HEAD requests.
MatchExactMethod(r, q) ==
  /\ (r.method # None) => (r.method = q.method)
  /\ (r.host # None) => (q.host # None /\ q.host = r.host)
  /\ (r.path # None) => (r.path = q.path)

\* Route::Match.  q.host = None stands for a request without Host header.
Match(r, q) ==
  /\ (r.method # None /\ r.method # q.method)
       => (r.method = "get" /\ q.method = "head")
  /\ (r.host # None) => (q.host # None /\ q.host = r.host)
  /\ (r.path # None /\ r.path # q.path) => FALSE

NoRequest == [method |-> None, host |-> None, path |-> None]

----------------------------------------------------------------------------
\* wf::Response and its ResponseWriter.

\* Response::Response followed by FromRequest and UseWriter.  `writer` is the
\* attached sink and its state: "ok", one that fails WriteHead ("fail_head"),
\* one that fails its first WriteHead only ("fail_head_once"), one that fails
\* WriteChunk ("fail_chunk"), or None when no writer is attached.
FromRequest(q, w) ==
  [head_written |-> FALSE, finished |-> FALSE, status |-> 200,
   ctype |-> [type |-> None, charsets |-> 0], clen |-> -1,
   error |-> OkStatus, is_head |-> (q.method = "head"),
   writer |-> w, fault |-> FALSE]

NoResponse == FromRequest(NoRequest, None)

HeadEvent(r, ok) ==
  [ev |-> "head", ok |-> ok, status |-> r.status, ctype |-> r.ctype,
   clen |-> r.clen, data |-> <<>>]

ChunkEvent(d, ok) ==
  [ev |-> "chunk", ok |-> ok, status |-> 0,
   ctype |-> [type |-> None, charsets |-> 0], clen |-> -1, data |-> d]

EndEvent ==
  [ev |-> "end", ok |-> TRUE, status |-> 0,
   ctype |-> [type |-> None, charsets |-> 0], clen |-> -1, data |-> <<>>]

\* Result of a Response operation: the Response, the sink, the returned status.
Ret(r, k, s) == [r |-> r, k |-> k, s |-> s]

\* Response::Status(int) and Response::Header("Content-Type", v).
SetStatus(r, n) == [r EXCEPT !.status = n]

SetContentType(r, t) == [r EXCEPT !.ctype = [type |-> t, charsets |-> 0]]

SetError(r, s) == [r EXCEPT !.error = s]

\* The sink after its WriteHead returned a failure: one that fails only its
\* first WriteHead accepts the next.
AfterHeadFailure(w) == IF w = "fail_head_once" THEN "ok" ELSE w

\* WriteHead without the test of head_written_: the headers go to the sink
\* every time.
WriteHeadRepeats(r, k) ==
  IF r.finished THEN Ret(r, k, OkStatus)
  ELSE IF r.writer = None
    THEN Ret(r, k, UnavailableError("response writer not set"))
  ELSE
    LET r1 == [r EXCEPT !.ctype =
                 IF r.ctype.type = None
                   THEN [type |-> "application/octet-stream", charsets |-> 1]
                   ELSE [type |-> r.ctype.type,
                         charsets |-> r.ctype.charsets + 1]]
        ok == r.writer \notin {"fail_head", "fail_head_once"}
        k1 == Append(k, HeadEvent(r1, ok))
    IN IF ~ok THEN Ret([r1 EXCEPT !.writer = AfterHeadFailure(r.writer)], k1,
                       InternalError("example error"))
       ELSE Ret([r1 EXCEPT !.head_written = TRUE], k1, OkStatus)

\* Response::WriteHead.
WriteHead(r, k) ==
  IF r.head_written \/ r.finished THEN Ret(r, k, OkStatus)
  ELSE IF r.writer = None
    THEN Ret(r, k, UnavailableError("response writer not set"))
  ELSE
    LET r1 == [r EXCEPT !.ctype =
                 IF r.ctype.type = None
                   THEN [type |-> "application/octet-stream", charsets |-> 1]
                   ELSE [type |-> r.ctype.type,
                         charsets |-> r.ctype.charsets + 1]]
        ok == r.writer \notin {"fail_head", "fail_head_once"}
        k1 == Append(k, HeadEvent(r1, ok))
    IN IF ~ok THEN Ret([r1 EXCEPT !.writer = AfterHeadFailure(r.writer)], k1,
                       InternalError("example error"))
       ELSE Ret([r1 EXCEPT !.head_written = TRUE], k1, OkStatus)

\* Write that goes on to the chunk when emitting the headers failed.
WriteIgnoringHead(r, k, d) ==
  LET h == IF r.head_written THEN Ret(r, k, OkStatus) ELSE WriteHead(r, k)
      ok == h.r.writer # "fail_chunk"
  IN IF h.r.writer = None THEN h
     ELSE Ret(h.r, Append(h.k, ChunkEvent(d, ok)),
              IF ok THEN OkStatus ELSE InternalError("example error"))

\* Response::Write.
Write(r, k, d) ==
  IF r.finished
    THEN Ret(r, k, FailedPreconditionError(
                     "cannot write data, response already finished"))
  ELSE
    LET h == IF r.head_written THEN Ret(r, k, OkStatus) ELSE WriteHead(r, k)
    IN IF ~IsOk(h.s) THEN h
       ELSE IF h.r.is_head THEN Ret(h.r, h.k, OkStatus)
       ELSE LET ok == h.r.writer # "fail_chunk"
            IN Ret(h.r, Append(h.k, ChunkEvent(d, ok)),
                   IF ok THEN OkStatus ELSE InternalError("example error"))

\* Response::End().  With no writer attached the call through the null
\* writer_ is recorded in `fault`.
End(r, k) ==
  IF r.finished THEN Ret(r, k, OkStatus)
  ELSE
    LET h == IF r.head_written THEN Ret(r, k, OkStatus) ELSE WriteHead(r, k)
    IN IF h.r.writer = None
         THEN Ret([h.r EXCEPT !.fault = TRUE], h.k, OkStatus)
         ELSE Ret(h.r, Append(h.k, EndEvent), OkStatus)

\* EndData that returns as soon as the write failed, without End().
EndDataNoGuarantee(r, k, d) ==
  LET r1 == IF r.head_written THEN r ELSE [r EXCEPT !.clen = DataSize(d)]
      w == Write(r1, k, d)
  IN IF ~IsOk(w.s) THEN w
     ELSE LET e == End(w.r, w.k) IN Ret(e.r, e.k, w.s)

\* Response::End(data).
EndData(r, k, d) ==
  LET r1 == IF r.head_written THEN r ELSE [r EXCEPT !.clen = DataSize(d)]
      w == Write(r1, k, d)
      e == End(w.r, w.k)
  IN Ret(e.r, e.k, w.s)

\* Response::Render.  The Renderer writes its output d through the
\* ResponseStreambuf (Write, failures ignored) and returns rs.
Render(r, k, d, rs) ==
  LET h == WriteHead(SetContentType(r, "text/html"), k)
  IN IF ~IsOk(h.s)
       THEN LET e == End(h.r, h.k) IN Ret(e.r, e.k, h.s)
       ELSE LET w == IF d = <<>> THEN h ELSE Write(h.r, h.k, d)
            IN Ret(w.r, w.k, rs)

----------------------------------------------------------------------------
\* Router: registration.

RoutePaths == {"/"}

Kinds == {"mw", "proc"}

\* The sinks a dispatch is run with: the transport adapter binds the Response
\* to a writer whose operations succeed (CGIWriter).
Writers == {"ok"}

\* Router::Use(const Route&, mw): routes_.push_back.
PushRoute(rs, r, kind) == Append(rs, [route |-> r, kind |-> kind])

Register(r, kind) ==
  /\ phase = "setup"
  /\ Len(routes) < MaxRoutes
  /\ routes' = PushRoute(routes, r, kind)
  /\ UNCHANGED <<errors, phase, req, res, sink, stack, invs, termLog, diagLog, nops, calls, replaced, compVars>>

\* Router::Use(mw)
Use(kind) == Register(NewRoute, kind)

\* Router::Get(path, mw)
Get(p, kind) == Register(RequirePath(RequireMethod(NewRoute, "get"), p), kind)

\* Router::Post(path, mw)
Post(p, kind) ==
  Register(RequirePath(RequireMethod(NewRoute, "post"), p), kind)

\* The Middleware objects registered as error handlers, and what each is.
ErrHandlers == {"E1", "E2"}

KindOf(h) == IF h = "E1" THEN "mw" ELSE "proc"

\* SetHandler that keeps the handler a code already has.
SetHandlerKeepFirst(es, code, h) ==
  IF es[code] # None THEN es ELSE [es EXCEPT ![code] = h]

\* errors_[code] = std::move(mw)
SetHandler(es, code, h) == [es EXCEPT ![code] = h]

\* Router::Error.  The unique_ptr is moved in, so a handler object is
\* registered once.
Error(code, h) ==
  /\ phase = "setup"
  /\ \A c \in Codes : errors[c] # h /\ <<c, h>> \notin replaced
  /\ errors' = SetHandler(errors, code, h)
  /\ replaced' = IF errors[code] # None
                   THEN replaced \cup {<<code, errors[code]>>}
                   ELSE replaced
  /\ UNCHANGED <<routes, phase, req, res, sink, stack, invs, termLog, diagLog,
                 nops, calls, compVars>>

----------------------------------------------------------------------------
\* Router: dispatch.

Frame(f, id, s, pc) == [f |-> f, id |-> id, s |-> s, pc |-> pc, nf |-> 0]

Top == stack[Len(stack)]

Below == SubSeq(stack, 1, Len(stack) - 1)

RECURSIVE Unwind(_)
\* Returning: the frames whose code has nothing left to do after the call
\* they made (pc = "ret") return in turn.
Unwind(stk) ==
  IF stk # <<>> /\ stk[Len(stk)].pc = "ret"
    THEN Unwind(SubSeq(stk, 1, Len(stk) - 1))
    ELSE stk

\* The frame on top returns.
Returned == Unwind(Below)

\* One Middleware invocation.  `who` is the index of the RouteEntry, or 0 for
\* an error handler; `flag` is the stack_flag made for the invocation; `cap`
\* is the status captured by the continuation handed to an error handler;
\* `args` are the statuses the handler passed to its continuation so far;
\* `late` records a call made after the handler had returned; `ret` is what
\* the two-argument handler of a Processor returned; `h` is the handler
\* object of an error-handler invocation; `up` is 0 for an entry of the
\* Router that Handle was called on, and for an entry of a nested Router the
\* invocation of that Router.
NewInv(who, kind, cap) ==
  [who |-> who, kind |-> kind, flag |-> TRUE, cap |-> cap, args |-> <<>>,
   late |-> FALSE, ret |-> NoStatus, h |-> None, up |-> 0]

\* Calling the continuation of invocation id with status s pushes the frame of
\* the lambda: the NextFactory closure for a RouteEntry (of the nested Router:
\* "inext"), the double-failure lambda of Handle for an error handler.
ContFrame(id, s) ==
  IF invs[id].who = 0 THEN Frame("dbl", id, s, "entry")
  ELSE IF invs[id].up # 0 THEN Frame("inext", id, s, "entry")
  ELSE Frame("next", id, s, "entry")

RECURSIVE FirstMatch(_, _, _)
\* The for loop of NextFactory from index i: the first matching RouteEntry, or
\* Len(rs) + 1 when the loop runs off the end.
FirstMatch(rs, q, i) ==
  IF i > Len(rs) THEN Len(rs) + 1
  ELSE IF Match(rs[i].route, q) THEN i
  ELSE FirstMatch(rs, q, i + 1)

\* The index a continuation is bound to: NextFactory(i + 1, ...).
BoundIndex(id) == IF id = 0 THEN 1 ELSE invs[id].who + 1

\* EntryDecision without the trampoline: a continuation called with success
\* always runs the loop itself, however it was called.
EntryDecisionRecursive(s, hasFlag, flagVal) ==
  IF ~IsOk(s) THEN "bail" ELSE "scan"

\* EntryDecision with the test of the stack_flag placed before the test of the
\* status.
EntryDecisionFlagFirst(s, hasFlag, flagVal) ==
  IF hasFlag /\ flagVal THEN "swallow"
  ELSE IF ~IsOk(s) THEN "bail"
  ELSE "scan"

\* The head of the NextFactory closure: what it does with status s given its
\* stack_flag (hasFlag is false for the nullptr of Router::operator()).
EntryDecision(s, hasFlag, flagVal) ==
  IF ~IsOk(s) THEN "bail"
  ELSE IF hasFlag /\ flagVal THEN "swallow"
  ELSE "scan"

\* AfterCall without the test of the flag: the loop goes on after a
\* Middleware that has not called next.
AfterCallNoStop(flagVal) == "continue"

\* After the Middleware returned: `if (*new_stack_flag) return;`.
AfterCall(flagVal) == IF flagVal THEN "stop" ELSE "continue"

\* old_next(s) for Handle: the terminal continuation is called.
CallTerminal(fr, s) ==
  /\ stack' = Append(Append(Below, [fr EXCEPT !.pc = "ret"]),
                     Frame("terminal", 0, s, "entry"))
  /\ termLog' = Append(termLog, [s |-> s, hw |-> res.head_written])

\* The for loop from index i, up to the call it makes.
Scan(fr, i) ==
  LET j == FirstMatch(routes, req, i)
      n == Len(invs) + 1
  IN IF j > Len(routes)
       THEN /\ CallTerminal(fr, OkStatus)
            /\ UNCHANGED invs
       ELSE /\ invs' = Append(invs, NewInv(j, routes[j].kind, OkStatus))
            /\ stack' = Append(Append(Below, [fr EXCEPT !.pc = "wait",
                                                        !.nf = n]),
                               Frame("mw", n, OkStatus, "body"))
            /\ UNCHANGED termLog

\* Router::Handle: operator() calls NextFactory(0, req, res, nullptr, next)
\* with OkStatus.
Handle(q, w) ==
  /\ phase = "setup"
  /\ phase' = "run"
  /\ req' = [method |-> q[1], host |-> None, path |-> q[2]]
  /\ res' = FromRequest(req', w)
  /\ stack' = <<Frame("handle", 0, OkStatus, "ret"),
                Frame("next", 0, OkStatus, "entry")>>
  /\ UNCHANGED <<routes, errors, sink, invs, termLog, diagLog, nops, calls, replaced, compVars>>

\* The closure returned by NextFactory is entered.
NextEntry ==
  /\ stack # <<>> /\ Top.f = "next" /\ Top.pc = "entry"
  /\ LET id == Top.id
         d == EntryDecision(Top.s, id # 0,
                            IF id = 0 THEN FALSE ELSE invs[id].flag)
     IN CASE d = "bail" ->
               /\ CallTerminal(Top, Top.s)
               /\ UNCHANGED invs
          [] d = "swallow" ->
               /\ invs' = [invs EXCEPT ![id].flag = FALSE]
               /\ stack' = Returned
               /\ UNCHANGED termLog
          [] OTHER -> Scan(Top, BoundIndex(id))
  /\ UNCHANGED <<routes, errors, phase, req, res, sink, diagLog, nops, calls, replaced, compVars>>

\* The Middleware called from the loop has returned.
NextResume ==
  /\ stack # <<>> /\ Top.f = "next" /\ Top.pc = "wait"
  /\ IF AfterCall(invs[Top.nf].flag) = "stop"
       THEN /\ stack' = Returned
            /\ UNCHANGED <<invs, termLog>>
       ELSE Scan(Top, invs[Top.nf].who + 1)
  /\ UNCHANGED <<routes, errors, phase, req, res, sink, diagLog, nops, calls, replaced, compVars>>

----------------------------------------------------------------------------
\* Handler bodies (user code): Middleware and Processor.

RespOps == {"write", "end", "enddata"}

ApplyOp(op, r, k) ==
  CASE op = "write" -> Write(r, k, HelloBody)
    [] op = "end" -> End(r, k)
    [] OTHER -> EndData(r, k, HelloBody)

\* A handler calls the continuation it was given at most once (the Middleware
\* contract): invocation id has not called it yet.
MayCall(id) == invs[id].args = <<>>

InBody == stack # <<>> /\ Top.f = "mw" /\ Top.pc = "body"

\* The handler performs a Response operation.
MwRespond(op) ==
  /\ InBody
  /\ invs[Top.id].kind # "router"
  /\ nops < MaxOps
  /\ LET x == ApplyOp(op, res, sink)
     IN /\ res' = x.r
        /\ sink' = x.k
  /\ nops' = nops + 1
  /\ UNCHANGED <<routes, errors, phase, req, stack, invs, termLog, diagLog, calls, replaced, compVars>>

\* A Middleware calls next(s) before returning.
MwNext(s) ==
  /\ InBody
  /\ invs[Top.id].kind = "mw"
  /\ MayCall(Top.id)
  /\ invs' = [invs EXCEPT ![Top.id].args = Append(@, s)]
  /\ stack' = Append(stack, ContFrame(Top.id, s))
  /\ UNCHANGED <<routes, errors, phase, req, res, sink, termLog, diagLog, nops, calls, replaced, compVars>>

\* A Middleware returns.
MwReturn ==
  /\ InBody
  /\ invs[Top.id].kind = "mw"
  /\ stack' = Returned
  /\ UNCHANGED <<routes, errors, phase, req, res, sink, invs, termLog, diagLog, nops, calls, replaced, compVars>>

\* ProcAdapter that calls next whatever the handler returned.
ProcAdapterAlwaysNext(s) == <<s>>

\* ProcAdapter that reports a failure of its own instead of the handler's.
ProcAdapterOwnFailure(s) ==
  IF ~IsOk(s) THEN <<InternalError("processor failed")>> ELSE <<>>

\* Processor::operator()(req, res, next): the two-argument handler returned
\* s; the statuses the adapter calls next with: s for a failure, none for
\* success.
ProcAdapter(s) == IF ~IsOk(s) THEN <<s>> ELSE <<>>

ProcReturn(s) ==
  /\ InBody
  /\ invs[Top.id].kind = "proc"
  /\ LET a == ProcAdapter(s)
     IN /\ invs' = [invs EXCEPT ![Top.id].ret = s, ![Top.id].args = @ \o a]
        /\ stack' = IF a # <<>>
                      THEN Append(Append(Below, [Top EXCEPT !.pc = "ret"]),
                                  ContFrame(Top.id, a[1]))
                      ELSE Returned
  /\ UNCHANGED <<routes, errors, phase, req, res, sink, termLog, diagLog, nops, calls, replaced, compVars>>

\* A Middleware that returned earlier calls its continuation from a later
\* event, after Handle has returned.
Deferred(s) ==
  /\ phase = "run" /\ stack = <<>>
  /\ \E id \in 1..Len(invs) :
       /\ invs[id].kind = "mw"
       /\ MayCall(id)
       /\ invs' = [invs EXCEPT ![id].args = Append(@, s), ![id].late = TRUE]
       /\ stack' = <<ContFrame(id, s)>>
  /\ UNCHANGED <<routes, errors, phase, req, res, sink, termLog, diagLog, nops, calls, replaced, compVars>>

----------------------------------------------------------------------------
\* Router::Handle: the terminal continuation and the error cascade.

\* TerminalStatus without the HeadWritten test: every success is taken as a
\* normal completion.
TerminalStatusNoFallThrough(s, headWritten) == s

\* TerminalStatus that takes every success for a fall-through.
TerminalStatusAlwaysNotFound(s, headWritten) ==
  IF IsOk(s) THEN NotFoundError(RanOffMsg) ELSE s

\* The status the terminal continuation goes on with: OkStatus stands for
\* the early return.
TerminalStatus(s, headWritten) ==
  IF IsOk(s)
    THEN IF ~headWritten THEN NotFoundError(RanOffMsg) ELSE OkStatus
    ELSE s

\* HasHandler that never finds the handler.
HasHandlerNever(es, code) == FALSE

\* errors_.contains(code)
HasHandler(es, code) == code \in DOMAIN es /\ es[code] # None

\* SynthDiag without `res->Status(500)`.
SynthDiagNoStatus(r, k, s) ==
  LET r1 == SetContentType(r, "text/plain")
      h  == WriteHead(r1, k)
      w1 == Write(h.r, h.k, DiagPrefix)
      w2 == Write(w1.r, w1.k, StatusToString(s))
  IN EndData(w2.r, w2.k, Newline)

\* The diagnostic written when no handler is registered.
SynthDiag(r, k, s) ==
  LET r1 == SetContentType(SetStatus(r, 500), "text/plain")
      h  == WriteHead(r1, k)
      w1 == Write(h.r, h.k, DiagPrefix)
      w2 == Write(w1.r, w1.k, StatusToString(s))
  IN EndData(w2.r, w2.k, Newline)

\* DoubleDiag that leaves out the second failure.
DoubleDiagDropSecond(r, k, s, s2) ==
  LET r1 == SetContentType(SetStatus(r, 500), "text/plain")
      h  == WriteHead(r1, k)
      w1 == Write(h.r, h.k, DiagPrefix)
      w2 == Write(w1.r, w1.k, StatusToString(s))
  IN EndData(w2.r, w2.k, Newline)

\* The diagnostic written on a double failure.
DoubleDiag(r, k, s, s2) ==
  LET r1 == SetContentType(SetStatus(r, 500), "text/plain")
      h  == WriteHead(r1, k)
      w1 == Write(h.r, h.k, DiagPrefix)
      w2 == Write(w1.r, w1.k, StatusToString(s))
      w3 == Write(w2.r, w2.k, DiagSecond)
      w4 == Write(w3.r, w3.k, StatusToString(s2))
  IN EndData(w4.r, w4.k, Newline)

\* Consulted that moves the handler out of the table when it invokes it.
ConsultedTakingHandler(es, s) ==
  IF s.code \in DOMAIN es THEN [es EXCEPT ![s.code] = None] ELSE es

\* errors_.contains(s.code()) and errors_.at(s.code()): the table after the
\* two lookups of the terminal continuation.
Consulted(es, s) == es

Terminal ==
  /\ stack # <<>> /\ Top.f = "terminal" /\ Top.pc = "entry"
  /\ LET s == TerminalStatus(Top.s, res.head_written)
     IN IF IsOk(s)
          THEN /\ stack' = Returned
               /\ UNCHANGED <<res, sink, invs, diagLog>>
        ELSE IF HasHandler(errors, s.code)
          THEN /\ res' = SetError(res, s)
               /\ invs' = Append(invs, [NewInv(0, KindOf(errors[s.code]), s)
                                           EXCEPT !.h = errors[s.code]])
               /\ stack' = Append(Append(Below, [Top EXCEPT !.pc = "ret"]),
                                  Frame("mw", Len(invs) + 1, OkStatus, "body"))
               /\ UNCHANGED <<sink, diagLog>>
        ELSE LET x == SynthDiag(SetError(res, s), sink, s)
             IN /\ res' = x.r
                /\ sink' = x.k
                /\ diagLog' = Append(diagLog, [ss |-> <<s>>,
                                                hw |-> res.head_written])
                /\ stack' = Returned
                /\ UNCHANGED invs
  /\ errors' = Consulted(errors, TerminalStatus(Top.s, res.head_written))
  /\ UNCHANGED <<routes, phase, req, termLog, nops, calls, replaced, compVars>>

\* IsDoubleFailure that takes every call of the continuation for a failure.
IsDoubleFailureAlways(s2) == TRUE

\* `if (s2.ok()) return;` at the head of the continuation handed to the error
\* handler.
IsDoubleFailure(s2) == ~IsOk(s2)

\* The continuation handed to the error handler.
DoubleFailure ==
  /\ stack # <<>> /\ Top.f = "dbl" /\ Top.pc = "entry"
  /\ IF ~IsDoubleFailure(Top.s)
       THEN UNCHANGED <<res, sink, diagLog>>
       ELSE LET x == DoubleDiag(res, sink, invs[Top.id].cap, Top.s)
            IN /\ res' = x.r
               /\ sink' = x.k
               /\ diagLog' = Append(diagLog,
                                     [ss |-> <<invs[Top.id].cap, Top.s>>,
                                      hw |-> res.head_written])
  /\ stack' = Returned
  /\ UNCHANGED <<routes, errors, phase, req, invs, termLog, nops, calls, replaced, compVars>>

----------------------------------------------------------------------------
\* HTTP strings.  A text the code scans byte by byte is a sequence of
\* one-character strings; a map is a function on the set of its keys.

EmptyMap == <<>>

Contains(m, k) == k \in DOMAIN m

Put(m, k, v) == [x \in DOMAIN m \cup {k} |-> IF x = k THEN v ELSE m[x]]

Remove(m, k) == [x \in DOMAIN m \ {k} |-> m[x]]

\* The zero byte a std::string(length, 0) is filled with.
NUL == "NUL"

\* std::tolower on one character.
ToLower(c) ==
  CASE c = "A" -> "a"
    [] c = "B" -> "b"
    [] c = "S" -> "s"
    [] OTHER -> c

\* CaseInsensitive on a text held as characters.
CaseInsensitiveChars(s) == [i \in DOMAIN s |-> ToLower(s[i])]

\* find / find_first_of: the first position of character c in s, 0 for npos.
Find(s, c) ==
  IF \E i \in DOMAIN s : s[i] = c
    THEN CHOOSE i \in DOMAIN s : s[i] = c /\ \A j \in 1..(i - 1) : s[j] # c
    ELSE 0

\* absl::StrSplit(s, c): the pieces between the separators, empty ones kept.
RECURSIVE StrSplit(_, _)
StrSplit(s, c) ==
  LET p == Find(s, c)
  IN IF p = 0
       THEN <<s>>
       ELSE <<SubSeq(s, 1, p - 1)>> \o StrSplit(SubSeq(s, p + 1, Len(s)), c)

\* The value of a hexadecimal digit, -1 for any other character.
HexVal(c) ==
  CASE c = "0" -> 0 [] c = "1" -> 1 [] c = "2" -> 2 [] c = "3" -> 3
    [] c = "4" -> 4 [] c = "5" -> 5 [] c = "6" -> 6 [] c = "7" -> 7
    [] c = "8" -> 8 [] c = "9" -> 9
    [] c \in {"a", "A"} -> 10 [] c \in {"b", "B"} -> 11
    [] c \in {"c", "C"} -> 12 [] c \in {"d", "D"} -> 13
    [] c \in {"e", "E"} -> 14 [] c \in {"f", "F"} -> 15
    [] OTHER -> -1

\* The character of a byte value.
Chr(n) ==
  CASE n = 32 -> " " [] n = 33 -> "!" [] n = 37 -> "%" [] n = 38 -> "&"
    [] n = 42 -> "*" [] n = 43 -> "+" [] n = 49 -> "1" [] n = 50 -> "2"
    [] n = 61 -> "=" [] n = 65 -> "A" [] n = 66 -> "B" [] n = 83 -> "S"
    [] n = 97 -> "a" [] n = 98 -> "b" [] n = 102 -> "f" [] n = 106 -> "j"
    [] n = 107 -> "k" [] n = 115 -> "s"
    [] OTHER -> "?"

\* URLDecode from position i on, `result` being what is decoded so far.
RECURSIVE URLDecodeFrom(_, _, _)
URLDecodeFrom(s, i, result) ==
  IF i > Len(s) THEN result
  ELSE IF s[i] = "+" THEN URLDecodeFrom(s, i + 1, Append(result, " "))
  ELSE IF s[i] = "%"
    THEN IF i + 1 >= Len(s)
           THEN result
           ELSE LET h1 == HexVal(s[i + 1])
                    h2 == HexVal(s[i + 2])
                IN IF h1 >= 0 /\ h2 >= 0
                     THEN URLDecodeFrom(s, i + 3,
                                        Append(result, Chr(16 * h1 + h2)))
                     ELSE URLDecodeFrom(s, i + 3, result)
  ELSE URLDecodeFrom(s, i + 1, Append(result, s[i]))

URLDecode(s) == URLDecodeFrom(s, 1, <<>>)

ParseQueryPartLastWins(part, query) ==
  LET pos == Find(part, "=")
      key == IF pos # 0 THEN SubSeq(part, 1, pos - 1) ELSE part
      value == IF pos # 0 THEN SubSeq(part, pos + 1, Len(part)) ELSE <<"1">>
  IN Put(query, URLDecode(key), URLDecode(value))

\* One '&'-separated part of a query string, added to the map `query`.
ParseQueryPart(part, query) ==
  LET pos == Find(part, "=")
      key == IF pos # 0 THEN SubSeq(part, 1, pos - 1) ELSE part
      value == IF pos # 0 THEN SubSeq(part, pos + 1, Len(part)) ELSE <<"1">>
      url_decoded_key == URLDecode(key)
  IN IF ~Contains(query, url_decoded_key)
       THEN Put(query, url_decoded_key, URLDecode(value))
       ELSE query

RECURSIVE ParseQueryParts(_, _)
ParseQueryParts(parts, query) ==
  IF parts = <<>> THEN query
  ELSE ParseQueryParts(Tail(parts), ParseQueryPart(Head(parts), query))

ParseQueryString(s, query) == ParseQueryParts(StrSplit(s, "&"), query)

----------------------------------------------------------------------------
\* wf::Request on its own: headers, cookies, query and the body stream.

InvalidArgumentError(m) == [code |-> "invalid_argument", msg |-> m]

\* A std::istream: none attached, or the bytes that are still unread.
NullStream == [null |-> TRUE, data |-> <<>>]

StreamOf(body) == [null |-> FALSE, data |-> body]

\* Request::Request as far as the parsers and the lookups read it.
NewHttpRequest ==
  [method |-> "get", path |-> <<"/">>, headers |-> EmptyMap,
   cookies |-> EmptyMap, query |-> EmptyMap, stream |-> NullStream]

\* Request::Path(path).
HttpPath(q, p) == [q EXCEPT !.path = p]

\* Request::Method(method).
HttpMethod(q, m) == [q EXCEPT !.method = CaseInsensitive(m)]

\* Request::Stream(stream).
HttpStream(q, st) == [q EXCEPT !.stream = st]

\* remove_prefix up to the first character that is no space, if there is one.
StripLeading(key) ==
  IF \E i \in DOMAIN key : key[i] # " "
    THEN LET pos == CHOOSE i \in DOMAIN key :
                      key[i] # " " /\ \A j \in 1..(i - 1) : key[j] = " "
         IN SubSeq(key, pos, Len(key))
    ELSE key

\* remove_suffix after the last character that is no space, if there is one.
StripTrailing(data) ==
  IF \E i \in DOMAIN data : data[i] # " "
    THEN LET pos == CHOOSE i \in DOMAIN data :
                      data[i] # " " /\ \A j \in (i + 1)..Len(data) : data[j] = " "
         IN SubSeq(data, 1, pos)
    ELSE data

\* One ';'-separated part of a Cookie header, stored in `cookies`.
CookiePart(it, cookies) ==
  LET pos == Find(it, "=")
      key == IF pos = 0 THEN it ELSE SubSeq(it, 1, pos - 1)
      data == IF pos = 0 THEN <<"1">> ELSE SubSeq(it, pos + 1, Len(it))
  IN Put(cookies, URLDecode(StripLeading(key)), URLDecode(StripTrailing(data)))

RECURSIVE CookieParts(_, _)
CookieParts(parts, cookies) ==
  IF parts = <<>> THEN cookies
  ELSE CookieParts(Tail(parts), CookiePart(Head(parts), cookies))

\* Request::Header(name, value): a Cookie header fills the cookies, any other
\* header is stored under its lower-case name.
HttpHeader(q, name, value) ==
  LET name_string == CaseInsensitive(name)
  IN IF name_string = "cookie"
       THEN [q EXCEPT !.cookies = CookieParts(StrSplit(value, ";"), @)]
       ELSE [q EXCEPT !.headers = Put(@, name_string, value)]

\* A StatusOr: the status, and the value when the status is OK.
Found(v) == [s |-> OkStatus, v |-> v]

Missing(m) == [s |-> NotFoundError(m), v |-> None]

\* Request::Header(name).
HttpHeaderGet(q, name) ==
  LET name_string == CaseInsensitive(name)
  IN IF Contains(q.headers, name_string)
       THEN Found(q.headers[name_string])
       ELSE Missing("no header with that name")

\* Request::Cookie(name, value).
HttpCookie(q, name, value) ==
  [q EXCEPT !.cookies = Put(@, CaseInsensitiveChars(name), value)]

\* Request::Cookie(name).
HttpCookieGet(q, name) ==
  LET name_string == CaseInsensitiveChars(name)
  IN IF Contains(q.cookies, name_string)
       THEN Found(q.cookies[name_string])
       ELSE Missing("no cookie with that name")

\* Response::Header(name, value) and Response::Header(name) on the header map
\* of a Response.
ResHeader(hs, name, value) == Put(hs, CaseInsensitive(name), value)

ResHeaderGet(hs, name) ==
  LET name_string == CaseInsensitive(name)
  IN IF Contains(hs, name_string)
       THEN Found(hs[name_string])
       ELSE Missing("no header with that name")

\* std::stoul on a header value: the number its leading digits spell, -1 when
\* it has none and std::invalid_argument is thrown.
StoUL(v) ==
  CASE v = "0" -> 0
    [] v = "3" -> 3
    [] v = "5" -> 5
    [] v = "7" -> 7
    [] v = "3x" -> 3
    [] OTHER -> -1

\* istream::read(buf, n) into a buffer of n zero bytes: the bytes the stream
\* still has, then the zero bytes that were not overwritten.
ReadInto(st, n) ==
  LET got == IF n <= Len(st.data) THEN n ELSE Len(st.data)
  IN [s |-> SubSeq(st.data, 1, got) \o [i \in 1..(n - got) |-> NUL],
      stream |-> [st EXCEPT !.data = SubSeq(@, got + 1, Len(@))]]

\* What a parser call leaves behind: its status, the output object, the
\* stream, and whether an exception left the call instead of a status.
Parsed(s, data, stream, threw) ==
  [s |-> s, data |-> data, stream |-> stream, threw |-> threw]

UrlEncodedType == "application/x-www-form-urlencoded"

JsonType == "application/json"

BodylessMethods == {"get", "head", "options"}

\* Request::ParseURLEncoded(data).
ParseURLEncoded(q, data) ==
  IF q.method \in BodylessMethods
    THEN Parsed(FailedPreconditionError("no request body allowed"),
                data, q.stream, FALSE)
  ELSE IF ~Contains(q.headers, "content-type")
    THEN Parsed(FailedPreconditionError("no Content-Type header for URLEncoded"),
                data, q.stream, FALSE)
  ELSE IF q.headers["content-type"] # UrlEncodedType
    THEN Parsed(FailedPreconditionError("incorrect Content-Type for URLEncoded"),
                data, q.stream, FALSE)
  ELSE IF ~Contains(q.headers, "content-length")
    THEN Parsed(FailedPreconditionError("no Content-Length header"),
                data, q.stream, FALSE)
  ELSE IF q.stream.null
    THEN Parsed(InternalError("stream is null"), data, q.stream, FALSE)
  ELSE LET length == StoUL(q.headers["content-length"])
       IN IF length < 0
            THEN Parsed(NoStatus, data, q.stream, TRUE)
            ELSE LET rd == ReadInto(q.stream, length)
                 IN Parsed(OkStatus, ParseQueryString(rd.s, data),
                           rd.stream, FALSE)

\* nlohmann::json::parse on the characters of the stream: the position after
\* the value that starts at position i, 0 when there is none.
RECURSIVE JsonValueEnd(_, _)
JsonValueEnd(s, i) ==
  IF i > Len(s) THEN 0
  ELSE IF s[i] = "1" THEN i + 1
  ELSE IF s[i] = "{"
    THEN IF i + 1 <= Len(s) /\ s[i + 1] = "}" THEN i + 2 ELSE 0
  ELSE IF s[i] = "["
    THEN IF i + 1 <= Len(s) /\ s[i + 1] = "]"
           THEN i + 2
           ELSE LET e == JsonValueEnd(s, i + 1)
                IN IF e # 0 /\ e <= Len(s) /\ s[e] = "]" THEN e + 1 ELSE 0
  ELSE 0

\* The whole input is one JSON value.
JsonParses(s) == JsonValueEnd(s, 1) = Len(s) + 1

\* The part of ParseJSON behind its gates: the stream is parsed as a whole.
ParseJSONBody(q, data) ==
  IF q.stream.null
    THEN Parsed(InternalError("stream is null"), data, q.stream, FALSE)
  ELSE IF JsonParses(q.stream.data)
    THEN Parsed(OkStatus, q.stream.data, StreamOf(<<>>), FALSE)
    ELSE Parsed(InvalidArgumentError("json parsing failed"),
                data, StreamOf(<<>>), FALSE)

ParseJSONNeedsLength(q, data) ==
  IF q.method \in BodylessMethods
    THEN Parsed(FailedPreconditionError("no request body allowed"),
                data, q.stream, FALSE)
  ELSE IF ~Contains(q.headers, "content-type")
    THEN Parsed(FailedPreconditionError("no Content-Type header for JSON"),
                data, q.stream, FALSE)
  ELSE IF q.headers["content-type"] # JsonType
    THEN Parsed(FailedPreconditionError("incorrect Content-Type for JSON"),
                data, q.stream, FALSE)
  ELSE IF ~Contains(q.headers, "content-length")
    THEN Parsed(FailedPreconditionError("no Content-Length header"),
                data, q.stream, FALSE)
  ELSE ParseJSONBody(q, data)

\* Request::ParseJSON(data).
ParseJSON(q, data) ==
  IF q.method \in BodylessMethods
    THEN Parsed(FailedPreconditionError("no request body allowed"),
                data, q.stream, FALSE)
  ELSE IF ~Contains(q.headers, "content-type")
    THEN Parsed(FailedPreconditionError("no Content-Type header for JSON"),
                data, q.stream, FALSE)
  ELSE IF q.headers["content-type"] # JsonType
    THEN Parsed(FailedPreconditionError("incorrect Content-Type for JSON"),
                data, q.stream, FALSE)
  ELSE ParseJSONBody(q, data)

\* The served file before it is touched; times are in clock ticks.
NewFile == [mtime |-> 2]

\* The threads that call Minify on one Minifier, and the worker processes
\* they can start.
Threads == {1, 2}

Workers == {1, 2}

\* Minifier::Minifier: no worker, no pipes, the mutex free.  A pipe is named
\* by the worker at its other end; `written` is what was written to the
\* request FILE of a worker, `flushed` how much of it the worker can read,
\* `taken` how much it has read, `answers` the response frames it has sent;
\* `mine` is the worker whose pipes a thread holds in request_fds and
\* response_fds, `got` the request whose answer a thread was handed.
NewMinifier ==
  [worker_pid |-> 0, request_file |-> 0, response_file |-> 0, mutex |-> 0,
   forked |-> 0,
   written |-> [w \in Workers |-> <<>>],
   flushed |-> [w \in Workers |-> 0],
   taken |-> [w \in Workers |-> 0],
   answers |-> [w \in Workers |-> <<>>],
   pc |-> [t \in Threads |-> "idle"],
   mine |-> [t \in Threads |-> 0],
   got |-> [t \in Threads |-> 0],
   crashed |-> FALSE]

\* wf::Renderer.  A template source is a text; inja::Environment::parse
\* throws on "{% bad", and render_to throws on a template that names a
\* variable the data do not hold.
AbortedError(m) == [code |-> "aborted", msg |-> m]

DataLossError(m) == [code |-> "data_loss", msg |-> m]

Parses(src) == src # "{% bad"

Renders(tmpl) == tmpl # "{{ missing }}"

\* The file search_path_ / key holds: the template "foo" is on disk.
TemplateFile(key) == IF key = "foo" THEN "From file" ELSE None

\* Result of CacheHitOrParse: the status, the template, the cache.
Tmpl(s, t, cache) == [s |-> s, t |-> t, cache |-> cache]

\* CacheHitOrParse that parses the component whatever the cache holds.
CacheHitOrParseAlways(cache, key, is) ==
  LET Read(src) ==
        IF src = None THEN Tmpl(NotFoundError("no such template"), None, cache)
        ELSE IF ~Parses(src)
          THEN Tmpl(AbortedError("failed to parse template"), None, cache)
        ELSE Tmpl(OkStatus, src, Put(cache, key, src))
  IN Read(IF is = None THEN TemplateFile(key) ELSE is)

\* Renderer::CacheHitOrParse; `is` is the text of the component stream, or
\* None for nullptr.
CacheHitOrParse(cache, key, is) ==
  LET Read(src) ==
        IF src = None THEN Tmpl(NotFoundError("no such template"), None, cache)
        ELSE IF ~Parses(src)
          THEN Tmpl(AbortedError("failed to parse template"), None, cache)
        ELSE Tmpl(OkStatus, src, Put(cache, key, src))
  IN IF Contains(cache, key) THEN Tmpl(OkStatus, cache[key], cache)
     ELSE Read(IF is = None THEN TemplateFile(key) ELSE is)

\* Result of Renderer::Render: the status, the template used, what was
\* written to the output, the cache.
Rendered(s, t, output, cache) ==
  [s |-> s, t |-> t, output |-> output, cache |-> cache]

\* Renderer::Render.  `data` is "ok", or "empty value" for a RenderValue
\* with no value assigned.
RendererRender(cache, key, is, data) ==
  LET With(c) ==
        IF ~IsOk(c.s) THEN Rendered(c.s, None, "", c.cache)
        ELSE IF data = "empty value"
          THEN Rendered(DataLossError("RenderValue did not have any value assigned"),
                        c.t, "", c.cache)
        ELSE IF ~Renders(c.t)
          THEN Rendered(AbortedError("failed to render template"), c.t, "",
                        c.cache)
        ELSE Rendered(OkStatus, c.t, c.t, c.cache)
  IN With(CacheHitOrParse(cache, key, is))

\* Renderer::FlushCache.
FlushCache(cache) == EmptyMap

\* The worker before the first 'data' event: `data` and `state` of the
\* script, the bytes written to the request stream and not yet read (pipe),
\* and the frames written so far (sent).
NewWorker ==
  [data |-> <<>>, state |-> [type |-> 0, size |-> 0, data |-> <<>>],
   pipe |-> <<>>, sent |-> <<>>]

\* Router::Router: both tables empty.
NewRouter == [routes |-> <<>>, errors |-> [c \in Codes |-> None]]

\* The components before any call on them.
CompInit ==
  /\ inner = NewRouter
  /\ template_cache = EmptyMap
  /\ res_cookies = EmptyMap
  /\ worker = NewWorker
  /\ hreq = NewHttpRequest
  /\ hres = EmptyMap
  /\ out = <<>>
  /\ fs = NewFile
  /\ mini = NewMinifier

----------------------------------------------------------------------------
Init ==
  /\ routes = <<>>
  /\ errors = [c \in Codes |-> None]
  /\ phase = "setup"
  /\ req = NoRequest
  /\ res = NoResponse
  /\ sink = <<>>
  /\ stack = <<>>
  /\ invs = <<>>
  /\ termLog = <<>>
  /\ diagLog = <<>>
  /\ nops = 0
  /\ calls = <<>>
  /\ replaced = {}
  /\ CompInit

Next ==
  \/ \E k \in Kinds : Use(k)
  \/ \E p \in RoutePaths, k \in Kinds : Get(p, k)
  \/ \E p \in RoutePaths, k \in Kinds : Post(p, k)
  \/ \E c \in Codes, h \in ErrHandlers : Error(c, h)
  \/ \E q \in Requests, w \in Writers : Handle(q, w)
  \/ NextEntry
  \/ NextResume
  \/ \E op \in RespOps : MwRespond(op)
  \/ \E s \in {OkStatus} \cup UserFailures : MwNext(s)
  \/ MwReturn
  \/ \E s \in {OkStatus} \cup UserFailures : ProcReturn(s)
  \/ \E s \in {OkStatus} \cup UserFailures : Deferred(s)
  \/ Terminal
  \/ DoubleFailure

Spec == Init /\ [][Next]_vars

----------------------------------------------------------------------------
\* The Response driven directly, as the tests of the HTTP suite and the body
\* of one handler do: a request is served by a Router holding one RouteEntry,
\* and the handler, run when the Route matches, makes calls on the Response.

MaxCalls == 3   \* calls the handler makes on the Response

\* The sinks of the tests, a sink whose WriteHead fails (always, or the first
\* time), and no sink.
TestWriters == {"ok", "fail_chunk", "fail_head", "fail_head_once", None}

\* The Routes made by Use(mw), Get("/", mw) and Post("/", mw).
TestRoutes ==
  {NewRoute, RequirePath(RequireMethod(NewRoute, "get"), "/"),
   RequirePath(RequireMethod(NewRoute, "post"), "/")}

CallOps ==
  {"status", "header", "writehead", "write", "end", "enddata", "render",
   "renderfail"}

Bodies == {HelloBody, Newline}

\* One call on the Response: Status(404), Header("Content-Type",
\* "text/plain"), WriteHead(), Write(d), End(), End(d), or Render of a
\* component that renders to d, or of one the Renderer does not find.
Call(op, d, r, k) ==
  CASE op = "status" -> Ret(SetStatus(r, 404), k, OkStatus)
    [] op = "header" -> Ret(SetContentType(r, "text/plain"), k, OkStatus)
    [] op = "writehead" -> WriteHead(r, k)
    [] op = "write" -> Write(r, k, d)
    [] op = "end" -> End(r, k)
    [] op = "render" -> Render(r, k, d, OkStatus)
    [] op = "renderfail" ->
         Render(r, k, <<>>, NotFoundError("no such template"))
    [] OTHER -> EndData(r, k, d)

\* ServeCGI up to the handler: the Request, the Response made from it and bound
\* to the writer, and the test of the Route in the Router's loop.
Serve(q, w, rt) ==
  /\ phase = "setup"
  /\ req' = [method |-> q[1], host |-> None, path |-> q[2]]
  /\ res' = FromRequest(req', w)
  /\ routes' = PushRoute(routes, rt, "proc")
  /\ phase' = IF Match(rt, req') THEN "handler" ELSE "nomatch"
  /\ UNCHANGED <<errors, sink, stack, invs, termLog, diagLog, nops, calls,
                 replaced, compVars>>

\* The handler makes a call on the Response.  A call through the missing
\* writer ends the process.
RespCall(op, d) ==
  /\ phase = "handler"
  /\ ~res.fault
  /\ Len(calls) < MaxCalls
  /\ LET x == Call(op, d, res, sink)
     IN /\ res' = x.r
        /\ sink' = x.k
        /\ calls' = Append(calls, [op |-> op, d |-> d, s |-> x.s, pre |-> res,
                                   n |-> Len(sink)])
  /\ UNCHANGED <<routes, errors, phase, req, stack, invs, termLog, diagLog,
                 nops, replaced, compVars>>

RespNext ==
  \/ \E q \in Requests, w \in TestWriters, rt \in TestRoutes : Serve(q, w, rt)
  \/ \E op \in CallOps, d \in Bodies : RespCall(op, d)

RespSpec == Init /\ [][RespNext]_vars

----------------------------------------------------------------------------
\* Route::Match on its own: a Route and a Request are built with their
\* setters, and Match is evaluated on them.

MethodSpellings == {"get", "GET", "Get", "head", "HEAD", "post", "POST"}

Hosts == {"a.example", "b.example"}

Paths == {"/", "/other"}

MatchInit ==
  /\ routes = PushRoute(<<>>, NewRoute, "mw")
  /\ req = NewRequest
  /\ phase = "setup"
  /\ errors = [c \in Codes |-> None]
  /\ res = NoResponse
  /\ sink = <<>> /\ stack = <<>> /\ invs = <<>>
  /\ termLog = <<>> /\ diagLog = <<>>
  /\ nops = 0 /\ calls = <<>> /\ replaced = {}
  /\ CompInit

\* A setter of the Route was called.
RouteSet(r) ==
  /\ routes' = <<[route |-> r, kind |-> "mw"]>>
  /\ routes' # routes
  /\ phase' = "setup"
  /\ UNCHANGED <<errors, req, res, sink, stack, invs, termLog, diagLog, nops,
                 calls, replaced, compVars>>

RouteRequireMethod(m) == RouteSet(RequireMethod(routes[1].route, m))

RouteRequireHost(h) == RouteSet(RequireHost(routes[1].route, h))

RouteRequirePath(p) == RouteSet(RequirePath(routes[1].route, p))

\* A setter of the Request was called.
RequestSet(q) ==
  /\ req' = q
  /\ req' # req
  /\ phase' = "setup"
  /\ UNCHANGED <<routes, errors, res, sink, stack, invs, termLog, diagLog, nops,
                 calls, replaced, compVars>>

RequestMethod(m) == RequestSet(SetMethod(req, m))

RequestHost(h) == RequestSet(SetHost(req, h))

RequestPath(p) == RequestSet(SetPath(req, p))

\* Route::Match is called; its result is kept in `phase`.
RouteMatch ==
  /\ phase' = IF Match(routes[1].route, req) THEN "match" ELSE "nomatch"
  /\ UNCHANGED <<routes, errors, req, res, sink, stack, invs, termLog, diagLog,
                 nops, calls, replaced, compVars>>

MatchNext ==
  \/ \E m \in MethodSpellings : RouteRequireMethod(m)
  \/ \E h \in Hosts : RouteRequireHost(h)
  \/ \E p \in Paths : RouteRequirePath(p)
  \/ \E m \in MethodSpellings : RequestMethod(m)
  \/ \E h \in Hosts : RequestHost(h)
  \/ \E p \in Paths : RequestPath(p)
  \/ RouteMatch

MatchSpec == MatchInit /\ [][MatchNext]_vars

----------------------------------------------------------------------------
\* The body parsers driven directly: a Request is built with its setters, then
\* ParseURLEncoded and ParseJSON are called on it.

MaxParses == 2   \* parser calls made on one Request

BodyMethods == {"POST", "post", "GET", "get", "HEAD", "OPTIONS"}

BodyHeaders ==
  {<<n, v>> : n \in {"Content-Type", "content-type"},
              v \in {UrlEncodedType, JsonType, "Application/JSON"}}
    \cup {<<"Content-Length", v>> : v \in {"3", "5", "abc"}}

BodyTexts ==
  {<<"a", "=", "1">>, <<"a", "=", "1", "&", "b">>, <<"[", "1", "]">>,
   <<"{">>, <<>>}

\* The output maps a caller passes to ParseURLEncoded.
DataMaps == {EmptyMap, Put(EmptyMap, <<"a">>, <<"z">>)}

\* The JSON document a caller passes to ParseJSON.
NullJson == <<>>

\* Request::Method(method) is called before any parser.
BodyMethod ==
  /\ out = <<>>
  /\ \E m \in BodyMethods : hreq' = HttpMethod(hreq, m)
  /\ UNCHANGED <<hres, out>>
  /\ UNCHANGED restVars

\* Request::Header(name, value) is called before any parser.
BodyHeader ==
  /\ out = <<>>
  /\ \E h \in BodyHeaders : hreq' = HttpHeader(hreq, h[1], h[2])
  /\ UNCHANGED <<hres, out>>
  /\ UNCHANGED restVars

\* Request::Stream(stream) is called before any parser.
BodyStream ==
  /\ out = <<>>
  /\ \E b \in BodyTexts : hreq' = HttpStream(hreq, StreamOf(b))
  /\ UNCHANGED <<hres, out>>
  /\ UNCHANGED restVars

\* A parser may be called: the process has not been ended by an exception.
MayParse == Len(out) < MaxParses /\ \A i \in 1..Len(out) : ~out[i].threw

\* The log entry of a parser call that was given data0 and left p behind.
ParseEntry(op, data0, p) ==
  [op |-> op, s |-> p.s, threw |-> p.threw, data0 |-> data0, data |-> p.data,
   stream0 |-> hreq.stream, stream |-> p.stream]

CallParseURLEncoded ==
  /\ MayParse
  /\ \E d \in DataMaps :
       LET p == ParseURLEncoded(hreq, d)
       IN /\ hreq' = [hreq EXCEPT !.stream = p.stream]
          /\ out' = Append(out, ParseEntry("urlencoded", d, p))
  /\ UNCHANGED hres
  /\ UNCHANGED restVars

CallParseJSON ==
  /\ MayParse
  /\ LET p == ParseJSON(hreq, NullJson)
     IN /\ hreq' = [hreq EXCEPT !.stream = p.stream]
        /\ out' = Append(out, ParseEntry("json", NullJson, p))
  /\ UNCHANGED hres
  /\ UNCHANGED restVars

BodyNext ==
  \/ BodyMethod
  \/ BodyHeader
  \/ BodyStream
  \/ CallParseURLEncoded
  \/ CallParseJSON

BodySpec == Init /\ [][BodyNext]_vars

----------------------------------------------------------------------------
\* ParseQueryString driven directly, as ServeCGI calls it on the query map of
\* the Request: Query(key, value) puts keys in the map, then a query string
\* made of '&'-separated pairs is parsed into it.

MaxPairs == 2    \* pairs of one query string

\* A pair as it is written: its key, and its value when it has a '='.
Pair(k, eq, v) == [k |-> k, eq |-> eq, v |-> v]

RawPairs ==
  {Pair(<<"a">>, FALSE, <<>>), Pair(<<"a">>, TRUE, <<"1">>),
   Pair(<<"a">>, TRUE, <<"2">>), Pair(<<"b">>, TRUE, <<"1">>),
   Pair(<<"%", "6", "1">>, TRUE, <<"2">>), Pair(<<"a">>, TRUE, <<"b", "=", "1">>),
   Pair(<<>>, FALSE, <<>>), Pair(<<"b">>, TRUE, <<"a", "+", "%", "2">>),
   Pair(<<"b">>, TRUE, <<>>)}

PairLists == UNION {[1..n -> RawPairs] : n \in 1..MaxPairs}

PairText(p) == IF p.eq THEN p.k \o <<"=">> \o p.v ELSE p.k

\* The query string of a list of pairs.
RECURSIVE QueryText(_)
QueryText(ps) ==
  IF Len(ps) = 1 THEN PairText(ps[1])
  ELSE PairText(ps[1]) \o <<"&">> \o QueryText(Tail(ps))

PresetKeys == {<<"a">>, <<"b">>}

\* Request::Query(key, value) before the query string is parsed.
QueryPreset ==
  /\ out = <<>>
  /\ \E k \in PresetKeys : hreq' = [hreq EXCEPT !.query = Put(@, k, <<"z">>)]
  /\ UNCHANGED <<hres, out>>
  /\ UNCHANGED restVars

\* ParseQueryString(value, req->MutableQuery()).
CallParseQueryString ==
  /\ out = <<>>
  /\ \E ps \in PairLists :
       /\ hreq' = [hreq EXCEPT !.query = ParseQueryString(QueryText(ps), @)]
       /\ out' = <<[op |-> "query", pairs |-> ps, q0 |-> hreq.query,
                   q |-> hreq'.query]>>
  /\ UNCHANGED hres
  /\ UNCHANGED restVars

QueryNext ==
  \/ QueryPreset
  \/ CallParseQueryString

QuerySpec == Init /\ [][QueryNext]_vars

----------------------------------------------------------------------------
\* Headers and cookies driven directly: values are stored through the write
\* paths of Request and Response; `out` logs under which name each was stored.

MaxWrites == 2   \* values stored in one run

HeaderSpellings == {"X-Token", "x-token", "X-TOKEN", "Content-Type", "content-type"}

HeaderValues == {"v1", "v2"}

CookieSpellings == {<<"s">>, <<"S">>, <<"a", "b">>, <<"A", "b">>}

CookieValues == {<<"1">>, <<"2">>}

\* The values of the Cookie request headers.
CookieTexts ==
  {<<"s", "=", "1">>, <<"S", "=", "2">>,
   <<"a", "b", "=", "1", ";", " ", "s", "=", "2">>, <<"A", "b">>}

Stored(kind, name, value) == [kind |-> kind, name |-> name, value |-> value]

\* The cookies a Cookie header carries: each name with its value.
CookiesOf(text) ==
  LET parts == StrSplit(text, ";")
  IN [i \in DOMAIN parts |->
        LET pos == Find(parts[i], "=")
            key == IF pos = 0 THEN parts[i] ELSE SubSeq(parts[i], 1, pos - 1)
            data == IF pos = 0 THEN <<"1">>
                    ELSE SubSeq(parts[i], pos + 1, Len(parts[i]))
        IN Stored("cookie", URLDecode(StripLeading(key)),
                  URLDecode(StripTrailing(data)))]

\* Request::Header(name, value) with a header that is no Cookie header.
StoreRequestHeader ==
  /\ Len(out) < MaxWrites
  /\ \E n \in HeaderSpellings, v \in HeaderValues :
       /\ hreq' = HttpHeader(hreq, n, v)
       /\ out' = Append(out, Stored("request header", n, v))
  /\ UNCHANGED hres
  /\ UNCHANGED restVars

\* Request::Header("Cookie", value).
StoreCookieHeader ==
  /\ Len(out) < MaxWrites
  /\ \E n \in {"Cookie", "COOKIE"}, text \in CookieTexts :
       /\ hreq' = HttpHeader(hreq, n, text)
       /\ out' = out \o CookiesOf(text)
  /\ UNCHANGED hres
  /\ UNCHANGED restVars

\* Request::Cookie(name, value).
StoreCookie ==
  /\ Len(out) < MaxWrites
  /\ \E n \in CookieSpellings, v \in CookieValues :
       /\ hreq' = HttpCookie(hreq, n, v)
       /\ out' = Append(out, Stored("cookie", n, v))
  /\ UNCHANGED hres
  /\ UNCHANGED restVars

\* Response::Header(name, value).
StoreResponseHeader ==
  /\ Len(out) < MaxWrites
  /\ \E n \in HeaderSpellings, v \in HeaderValues :
       /\ hres' = ResHeader(hres, n, v)
       /\ out' = Append(out, Stored("response header", n, v))
  /\ UNCHANGED hreq
  /\ UNCHANGED restVars

LookupNext ==
  \/ StoreRequestHeader
  \/ StoreCookieHeader
  \/ StoreCookie
  \/ StoreResponseHeader

LookupSpec == Init /\ [][LookupNext]_vars

----------------------------------------------------------------------------
\* The static responders: StaticMiddleware and StaticProcessor.

MaxRemainder == 4     \* characters of a request path behind the base

TicksPerSecond == 2   \* clock ticks in one second

\* base_ of the StaticMiddleware, with its trailing '/'.
StaticBase == <<"/", "s", "/">>

\* Times, in ticks since the epoch, and the HTTP dates of whole seconds.
FormatHTTPDate(t) ==
  CASE t = 0 -> "Thu, 01 Jan 1970 00:00:00 GMT"
    [] t = TicksPerSecond -> "Thu, 01 Jan 1970 00:00:01 GMT"
    [] t = 2 * TicksPerSecond -> "Thu, 01 Jan 1970 00:00:02 GMT"
    [] OTHER -> "Thu, 01 Jan 1970 00:00:03 GMT"

\* ParseHTTPDate: the time of a well-formed date, -1 for InvalidArgument.
ParseHTTPDate(s) ==
  CASE s = "Thu, 01 Jan 1970 00:00:00 GMT" -> 0
    [] s = "Thu, 01 Jan 1970 00:00:01 GMT" -> TicksPerSecond
    [] s = "Thu, 01 Jan 1970 00:00:02 GMT" -> 2 * TicksPerSecond
    [] s = "Thu, 01 Jan 1970 00:00:03 GMT" -> 3 * TicksPerSecond
    [] OTHER -> -1

\* HTTPTruncateTime: the time cut down to its whole second.
HTTPTruncateTime(t) ==
  IF t >= 0 THEN (t \div TicksPerSecond) * TicksPerSecond
  ELSE -(((-t) \div TicksPerSecond) * TicksPerSecond)

\* FileTimeToAbslTime: ftime - file_clock::now() + system_clock::now().  The
\* two clocks are read one after the other, in either order; `skew` is the
\* time that passed between the two readings.
FileTimeToAbslTime(ftime, skew) == ftime + skew

\* GetMimeType: by the extension behind the last '.' of the file name.
GetMimeType(name) ==
  LET segs == StrSplit(name, "/")
      file == segs[Len(segs)]
      exts == StrSplit(file, ".")
  IN IF Len(exts) = 1 THEN "application/octet-stream"
     ELSE IF exts[Len(exts)] = <<"t", "x", "t">> THEN "text/plain"
     ELSE "application/octet-stream"

\* The tree below ComponentPath() / dir_: the regular file "a", the unreadable
\* regular file "a.a" and the directory "aa".
Child(node, name) ==
  IF node # "root" THEN "absent"
  ELSE CASE name = <<"a">> -> "file"
         [] name = <<"a", ".", "a">> -> "locked"
         [] name = <<"a", "a">> -> "dir"
         [] OTHER -> "absent"

IsDirectory(node) == node \in {"root", "dir", "outside"}

\* The node a relative path names, walking it segment by segment.
RECURSIVE Walk(_, _)
Walk(segs, node) ==
  IF segs = <<>> THEN node
  ELSE IF ~IsDirectory(node) THEN "absent"
  ELSE LET seg == Head(segs)
       IN IF seg = <<>> \/ seg = <<".">> THEN Walk(Tail(segs), node)
          ELSE IF seg = <<".", ".">>
            THEN Walk(Tail(segs), IF node = "dir" THEN "root" ELSE "outside")
          ELSE Walk(Tail(segs), Child(node, seg))

Resolve(rel) == Walk(StrSplit(rel, "/"), "root")

\* The bytes of a regular file and their number.
FileData(node) == IF node = "file" THEN HelloBody ELSE <<>>

\* What a static responder did: calls of the filesystem, calls of next, the
\* status a Processor returned, the end of the process; the entry that opens
\* the log names the responder and the file it was made for.
Did(ev, s) == [ev |-> ev, s |-> s, name |-> <<>>]

\* Result of the part both responders share: the Response, the sink, the
\* header map, and how it ended.
Served(r, k, hs, how) == [r |-> r, k |-> k, hs |-> hs, how |-> how]

\* The part both responders share, from the existence check on.
ServeFile(q, r, k, hs, name, f, skew) ==
  LET Ended(e, hs1, how) == Served(e.r, e.k, hs1, how)
      EndOf(w) == End(w.r, w.k)
      WriteOf(h, data) == Write(h.r, h.k, data)
      SinceOf(since) == IF IsOk(since.s) THEN ParseHTTPDate(since.v) ELSE -1
      Regular(node, mtime, s_time, r1, hs1) ==
        IF s_time >= 0 /\ mtime <= s_time
          THEN Ended(End(SetStatus(r1, 304), k), hs1, "not modified")
        ELSE IF node = "locked" THEN Served(r1, k, hs1, "unopened")
        ELSE Ended(EndOf(WriteOf(WriteHead(r1, k), FileData(node))), hs1, "sent")
      Known(node, mtime) ==
        IF node = "absent" THEN Served(r, k, hs, "absent")
        ELSE IF node \notin {"file", "locked"} THEN Served(r, k, hs, "irregular")
        ELSE Regular(node, mtime,
                     SinceOf(HttpHeaderGet(q, "If-Modified-Since")),
                     SetContentType([r EXCEPT !.clen = DataSize(FileData(node))],
                                    GetMimeType(name)),
                     ResHeader(hs, "Last-Modified", FormatHTTPDate(mtime)))
  IN Known(Resolve(name), HTTPTruncateTime(FileTimeToAbslTime(f.mtime, skew)))

\* Result of a responder: the Response, the sink, the header map, the log.
Responded(r, k, hs, log) == [r |-> r, k |-> k, hs |-> hs, log |-> log]

\* StaticProcessor::operator() for the file `filename`.
StaticProcessor(q, r, k, hs, filename, f, skew) ==
  LET StatusOf(v) ==
        Responded(v.r, v.k, v.hs,
          <<Did("fs", NoStatus),
            Did("return",
                CASE v.how = "absent" ->
                       InternalError("static file does not exist")
                  [] v.how = "irregular" ->
                       InternalError("static filepath is not a regular file")
                  [] v.how = "unopened" ->
                       InternalError("failed to open static file")
                  [] OTHER -> OkStatus)>>)
  IN StatusOf(ServeFile(q, r, k, hs, filename, f, skew))

\* s begins with the text p.
StartsWith(s, p) == Len(s) >= Len(p) /\ SubSeq(s, 1, Len(p)) = p

\* The scan for a ".." segment from position `from` on.
RECURSIVE DotDotFromNoLookAhead(_, _)
DotDotFromNoLookAhead(s, from) ==
  IF \A i \in from..(Len(s) - 1) : ~(s[i] = "." /\ s[i + 1] = ".") THEN FALSE
  ELSE LET pos == CHOOSE i \in from..(Len(s) - 1) :
                    /\ s[i] = "." /\ s[i + 1] = "."
                    /\ \A j \in from..(i - 1) : ~(s[j] = "." /\ s[j + 1] = ".")
       IN IF pos >= 2 /\ s[pos - 1] # "/" THEN DotDotFromNoLookAhead(s, pos + 1)
          ELSE TRUE

RECURSIVE DotDotFrom(_, _)
DotDotFrom(s, from) ==
  IF \A i \in from..(Len(s) - 1) : ~(s[i] = "." /\ s[i + 1] = ".") THEN FALSE
  ELSE LET pos == CHOOSE i \in from..(Len(s) - 1) :
                    /\ s[i] = "." /\ s[i + 1] = "."
                    /\ \A j \in from..(i - 1) : ~(s[j] = "." /\ s[j + 1] = ".")
       IN IF pos >= 2 /\ s[pos - 1] # "/" THEN DotDotFrom(s, pos + 1)
          ELSE IF pos + 2 <= Len(s) /\ s[pos + 2] # "/"
            THEN DotDotFrom(s, pos + 1)
          ELSE TRUE

\* What string_view::remove_prefix(npos) makes of the path when nothing but
\* '/' follows the base: with checks compiled in the process is ended,
\* without them the view wraps around to begin one character earlier.
RemovePrefixOutcomes == {"abort", "wrap"}

\* StaticMiddleware::operator().
StaticMiddleware(q, r, k, hs, f, skew, ub) ==
  LET Nexted(v) ==
        Responded(v.r, v.k, v.hs,
          <<Did("fs", NoStatus)>> \o
          (CASE v.how \in {"absent", "irregular"} -> <<Did("next", OkStatus)>>
             [] v.how = "unopened" ->
                  <<Did("next", InternalError("failed to open static file"))>>
             [] OTHER -> <<>>))
      FirstNotOf(rest) ==
        CHOOSE i \in DOMAIN rest :
          rest[i] # "/" /\ \A j \in 1..(i - 1) : rest[j] = "/"
      Vetted(npos, truncated_path) ==
        IF npos /\ ub = "abort"
          THEN Responded(r, k, hs, <<Did("abort", NoStatus)>>)
        ELSE IF DotDotFrom(truncated_path, 1)
          THEN Responded(r, k, hs,
                 <<Did("next",
                       NotFoundError("path traversal attempt detected"))>>)
        ELSE IF truncated_path[1] = "/"
          THEN Responded(r, k, hs,
                 <<Did("next",
                       NotFoundError("other path traversal attempt caught"))>>)
        ELSE Nexted(ServeFile(q, r, k, hs, truncated_path, f, skew))
      Truncated(rest, npos) ==
        Vetted(npos, IF npos THEN <<"/">> \o rest
                     ELSE SubSeq(rest, FirstNotOf(rest), Len(rest)))
      Matched(rest) == Truncated(rest, \A i \in DOMAIN rest : rest[i] = "/")
  IN IF ~StartsWith(q.path, StaticBase)
       THEN Responded(r, k, hs, <<Did("next", OkStatus)>>)
     ELSE Matched(SubSeq(q.path, Len(StaticBase) + 1, Len(q.path)))

\* The paths requested: every remainder of up to MaxRemainder characters
\* behind the base, and paths that are not under the base.
Remainders == UNION {[1..n -> {"/", ".", "a"}] : n \in 0..MaxRemainder}

StaticPaths ==
  {StaticBase \o rest : rest \in Remainders} \cup {<<"/">>, <<"/", "s">>, <<"/", "a">>}

SinceTexts ==
  {"Thu, 01 Jan 1970 00:00:00 GMT", "Thu, 01 Jan 1970 00:00:01 GMT",
   "Thu, 01 Jan 1970 00:00:02 GMT", "yesterday"}

\* Modification times of the served file, and the time between the two clock
\* readings of FileTimeToAbslTime.
MTimes == {2, 3, 4}

Skews == {-1, 0, 1}

\* The files a StaticProcessor is made for.
ProcessorFiles == {<<"a">>, <<"a", ".", "a">>, <<"a", "a">>, <<"a", "/", "a">>}

\* No responder has run yet.
Unserved == out = <<>>

\* Request::Path(path): the transport sets the path of a Request first.
StaticPath ==
  /\ Unserved
  /\ hreq = NewHttpRequest /\ fs = NewFile
  /\ \E p \in StaticPaths : hreq' = HttpPath(hreq, p)
  /\ UNCHANGED <<hres, out, fs, mini, partVars>>
  /\ UNCHANGED dispatchVars

\* Request::Method(method).
StaticMethod ==
  /\ Unserved
  /\ \E m \in {"GET", "HEAD"} : hreq' = HttpMethod(hreq, m)
  /\ UNCHANGED <<hres, out, fs, mini, partVars>>
  /\ UNCHANGED dispatchVars

\* Request::Header("If-Modified-Since", value).
StaticSince ==
  /\ Unserved
  /\ \E v \in SinceTexts : hreq' = HttpHeader(hreq, "If-Modified-Since", v)
  /\ UNCHANGED <<hres, out, fs, mini, partVars>>
  /\ UNCHANGED dispatchVars

\* The served file is written.
StaticTouch ==
  /\ Unserved
  /\ \E t \in MTimes : fs' = [fs EXCEPT !.mtime = t]
  /\ UNCHANGED <<hreq, hres, out, mini, partVars>>
  /\ UNCHANGED dispatchVars

\* The router invokes the StaticMiddleware with a fresh Response.
RunStaticMiddleware ==
  /\ Unserved
  /\ \E skew \in Skews, ub \in RemovePrefixOutcomes :
       \E v \in {StaticMiddleware(hreq, FromRequest(hreq, "ok"), <<>>, hres,
                                  fs, skew, ub)} :
          /\ res' = v.r
          /\ sink' = v.k
          /\ hres' = v.hs
          /\ out' = <<Did("middleware", NoStatus)>> \o v.log
  /\ UNCHANGED <<hreq, fs, mini, partVars>>
  /\ UNCHANGED <<routes, errors, phase, req, stack, invs, termLog, diagLog,
                 nops, calls, replaced>>

\* The router invokes a StaticProcessor with a fresh Response.
RunStaticProcessor ==
  /\ Unserved
  /\ \E skew \in Skews, name \in ProcessorFiles :
       \E v \in {StaticProcessor(hreq, FromRequest(hreq, "ok"), <<>>, hres,
                                 name, fs, skew)} :
          /\ res' = v.r
          /\ sink' = v.k
          /\ hres' = v.hs
          /\ out' = <<[Did("processor", NoStatus) EXCEPT !.name = name]>>
                      \o v.log
  /\ UNCHANGED <<hreq, fs, mini, partVars>>
  /\ UNCHANGED <<routes, errors, phase, req, stack, invs, termLog, diagLog,
                 nops, calls, replaced>>

StaticNext ==
  \/ StaticPath
  \/ StaticMethod
  \/ StaticSince
  \/ StaticTouch
  \/ RunStaticMiddleware
  \/ RunStaticProcessor

StaticSpec == Init /\ [][StaticNext]_vars

----------------------------------------------------------------------------
\* wf::Minifier called from several threads.  Every thread calls Minify once,
\* with a source of its own; a step is one access of the members of the
\* Minifier or one call of the C library.

\* A part of a request frame: the type byte, or the size and the source text,
\* of the request of thread t.
Part(part, t) == [part |-> part, of |-> t]

\* Thread t is at step pc and the process is running.
At(t, pc) == ~mini.crashed /\ mini.pc[t] = pc

Goto(m, t, pc) == [m EXCEPT !.pc[t] = pc]

\* The members of the other components and of the router stay as they are.
MiniStep(m) ==
  /\ mini' = m
  /\ UNCHANGED <<hreq, hres, out, fs, partVars>>
  /\ UNCHANGED dispatchVars

\* Minify is called: StartWorkerProcess reads worker_pid_ and probes it.
StartWorkerProcess ==
  \E t \in Threads :
    /\ At(t, "idle")
    /\ MiniStep(Goto(mini, t, IF mini.worker_pid # 0 THEN "lock" ELSE "fork"))

\* pipe(), pipe(), fork(): a new worker, worker_pid_ is set.
Fork ==
  \E t \in Threads :
    /\ At(t, "fork")
    /\ mini.forked < Cardinality(Workers)
    /\ MiniStep([Goto(mini, t, "open request") EXCEPT
                   !.forked = @ + 1, !.worker_pid = mini.forked + 1,
                   !.mine[t] = mini.forked + 1])

\* request_file_ = fdopen(request_fds[1], "w") for the worker this thread
\* forked; its pipes are the ones it created.
OpenRequestFile ==
  \E t \in Threads, w \in Workers :
    /\ At(t, "open request")
    /\ w = mini.mine[t]
    /\ MiniStep([Goto(mini, t, "open response") EXCEPT !.request_file = w])

\* response_file_ = fdopen(response_fds[0], "r").
OpenResponseFile ==
  \E t \in Threads, w \in Workers :
    /\ At(t, "open response")
    /\ w = mini.mine[t]
    /\ MiniStep([Goto(mini, t, "lock") EXCEPT !.response_file = w])

\* absl::MutexLock lock(&minify_processing_mutex_).
Lock ==
  \E t \in Threads :
    /\ At(t, "lock")
    /\ mini.mutex = 0
    /\ MiniStep([Goto(mini, t, "write type") EXCEPT !.mutex = t])

\* fwrite to request_file_: through a null FILE* the process ends.
WriteTo(m, t, part, pc) ==
  IF m.request_file = 0 THEN [m EXCEPT !.crashed = TRUE]
  ELSE [Goto(m, t, pc) EXCEPT
          !.written[m.request_file] = Append(@, Part(part, t))]

\* fwrite(&type, ...).
WriteType ==
  \E t \in Threads :
    /\ At(t, "write type")
    /\ MiniStep(WriteTo(mini, t, "type", "write source"))

\* fwrite of the size and of the source text.
WriteSource ==
  \E t \in Threads :
    /\ At(t, "write source")
    /\ MiniStep(WriteTo(mini, t, "source", "flush"))

\* fflush(request_file_), then the probe of worker_pid_.
Flush ==
  \E t \in Threads :
    /\ At(t, "flush")
    /\ MiniStep(IF mini.request_file = 0 THEN [mini EXCEPT !.crashed = TRUE]
                ELSE [Goto(mini, t, "read") EXCEPT
                        !.flushed[mini.request_file] =
                          Len(mini.written[mini.request_file])])

\* The worker has read a frame header and the text behind it: it answers
\* with the minified text.  A stream that does not begin with a type byte
\* is never answered.
WorkerAnswers ==
  \E w \in Workers :
    /\ ~mini.crashed
    /\ mini.taken[w] + 2 <= mini.flushed[w]
    /\ mini.written[w][mini.taken[w] + 1].part = "type"
    /\ mini.written[w][mini.taken[w] + 2].part = "source"
    /\ MiniStep([mini EXCEPT
                   !.taken[w] = @ + 2,
                   !.answers[w] = Append(@, mini.written[w][mini.taken[w] + 2].of)])

\* fread of the response frame from response_file_, which blocks until the
\* frame is there; then the lock is released and Minify returns OK.
ReadResponse ==
  \E t \in Threads :
    /\ At(t, "read")
    /\ mini.response_file # 0 => mini.answers[mini.response_file] # <<>>
    /\ MiniStep(IF mini.response_file = 0 THEN [mini EXCEPT !.crashed = TRUE]
                ELSE [Goto(mini, t, "done") EXCEPT
                        !.got[t] = Head(mini.answers[mini.response_file]),
                        !.answers[mini.response_file] = Tail(@),
                        !.mutex = 0])

MiniNext ==
  \/ StartWorkerProcess
  \/ Fork
  \/ OpenRequestFile
  \/ OpenResponseFile
  \/ Lock
  \/ WriteType
  \/ WriteSource
  \/ Flush
  \/ WorkerAnswers
  \/ ReadResponse

MiniSpec == Init /\ [][MiniNext]_vars

----------------------------------------------------------------------------
\* A Router registered as a Middleware of the Router that Handle is called on.
\* The closures NextFactory makes for the nested Router are the frames
\* "inext": the one Router::operator() calls is bound to the invocation of the
\* nested Router, the others to the invocation of one of its RouteEntries.

MaxInner == 2   \* RouteEntries registered on the nested Router

\* The Middleware registered as error handler on the nested Router.
InnerHandler == "I1"

\* outer.Use(std::move(inner)): the nested Router is moved in, once.
UseRouter ==
  /\ phase = "setup"
  /\ Len(routes) < MaxRoutes
  /\ \A j \in 1..Len(routes) : routes[j].kind # "router"
  /\ routes' = PushRoute(routes, NewRoute, "router")
  /\ UNCHANGED <<errors, phase, req, res, sink, stack, invs, termLog, diagLog,
                 nops, calls, replaced, compVars>>

\* inner.Use(mw) and inner.Get(path, mw).
InnerUse(r, kind) ==
  /\ phase = "setup"
  /\ Len(inner.routes) < MaxInner
  /\ inner' = [inner EXCEPT !.routes = PushRoute(@, r, kind)]
  /\ UNCHANGED <<hreq, hres, out, fs, mini, template_cache, res_cookies, worker>>
  /\ UNCHANGED dispatchVars

\* inner.Error(code, mw).
InnerError(code) ==
  /\ phase = "setup"
  /\ \A c \in Codes : inner.errors[c] = None
  /\ inner' = [inner EXCEPT !.errors = SetHandler(@, code, InnerHandler)]
  /\ UNCHANGED <<hreq, hres, out, fs, mini, template_cache, res_cookies, worker>>
  /\ UNCHANGED dispatchVars

\* The closure Router::operator() makes: NextFactory(0, req, res, nullptr,
\* next).
IsRootClosure(id) == invs[id].kind = "router"

\* The invocation of the nested Router a closure works for; its continuation
\* is the old_next of the closure.
RouterInv(id) == IF IsRootClosure(id) THEN id ELSE invs[id].up

\* Router::operator(): the closure is made and called with OkStatus.
RouterCall ==
  /\ InBody
  /\ invs[Top.id].kind = "router"
  /\ stack' = Append(Append(Below, [Top EXCEPT !.pc = "ret"]),
                     Frame("inext", Top.id, OkStatus, "entry"))
  /\ UNCHANGED <<routes, errors, phase, req, res, sink, invs, termLog, diagLog,
                 nops, calls, replaced, compVars>>

\* CallOldNext that hands on a success only: a failure ends in the nested
\* Router.
CallOldNextOnSuccessOnly(fr, s) ==
  IF IsOk(s)
    THEN /\ stack' = Append(Append(Below, [fr EXCEPT !.pc = "ret"]),
                            Frame("next", RouterInv(fr.id), s, "entry"))
         /\ invs' = [invs EXCEPT ![RouterInv(fr.id)].args = Append(@, s)]
    ELSE /\ stack' = Returned
         /\ UNCHANGED invs

\* old_next(s) of a closure of the nested Router: the continuation the outer
\* loop handed to Router::operator().
CallOldNext(fr, s) ==
  /\ stack' = Append(Append(Below, [fr EXCEPT !.pc = "ret"]),
                     Frame("next", RouterInv(fr.id), s, "entry"))
  /\ invs' = [invs EXCEPT ![RouterInv(fr.id)].args = Append(@, s)]

\* The for loop of a closure of the nested Router from index i.
InnerScan(fr, i) ==
  IF FirstMatch(inner.routes, req, i) > Len(inner.routes)
    THEN CallOldNext(fr, OkStatus)
    ELSE /\ invs' = Append(invs,
                      [NewInv(FirstMatch(inner.routes, req, i),
                              inner.routes[FirstMatch(inner.routes, req, i)].kind,
                              OkStatus)
                         EXCEPT !.up = RouterInv(fr.id)])
         /\ stack' = Append(Append(Below, [fr EXCEPT !.pc = "wait",
                                                     !.nf = Len(invs) + 1]),
                            Frame("mw", Len(invs) + 1, OkStatus, "body"))

\* A closure of the nested Router is entered.
InnerEntry ==
  /\ stack # <<>> /\ Top.f = "inext" /\ Top.pc = "entry"
  /\ \E d \in {EntryDecision(Top.s, ~IsRootClosure(Top.id),
                              IF IsRootClosure(Top.id) THEN FALSE
                              ELSE invs[Top.id].flag)} :
       CASE d = "bail" -> CallOldNext(Top, Top.s)
         [] d = "swallow" ->
              /\ invs' = [invs EXCEPT ![Top.id].flag = FALSE]
              /\ stack' = Returned
         [] OTHER ->
              InnerScan(Top, IF IsRootClosure(Top.id) THEN 1
                             ELSE invs[Top.id].who + 1)
  /\ UNCHANGED <<routes, errors, phase, req, res, sink, termLog, diagLog, nops,
                 calls, replaced, compVars>>

\* The Middleware called from the loop of the nested Router has returned.
InnerResume ==
  /\ stack # <<>> /\ Top.f = "inext" /\ Top.pc = "wait"
  /\ IF AfterCall(invs[Top.nf].flag) = "stop"
       THEN /\ stack' = Returned
            /\ UNCHANGED invs
       ELSE InnerScan(Top, invs[Top.nf].who + 1)
  /\ UNCHANGED <<routes, errors, phase, req, res, sink, termLog, diagLog, nops,
                 calls, replaced, compVars>>

\* The request dispatched through the two Routers; every RouteEntry is
\* registered with Use and matches it.
NestRequests == {<<"get", "/">>}

NestNext ==
  \/ \E k \in Kinds : Use(k)
  \/ UseRouter
  \/ \E k \in Kinds : InnerUse(NewRoute, k)
  \/ \E c \in Codes : InnerError(c)
  \/ \E c \in Codes : Error(c, "E1")
  \/ \E q \in NestRequests, w \in Writers : Handle(q, w)
  \/ NextEntry
  \/ NextResume
  \/ RouterCall
  \/ InnerEntry
  \/ InnerResume
  \/ \E op \in RespOps : MwRespond(op)
  \/ \E s \in {OkStatus} \cup UserFailures : MwNext(s)
  \/ MwReturn
  \/ \E s \in {OkStatus} \cup UserFailures : ProcReturn(s)
  \/ \E s \in {OkStatus} \cup UserFailures : Deferred(s)
  \/ Terminal
  \/ DoubleFailure

NestSpec == Init /\ [][NestNext]_vars

----------------------------------------------------------------------------
\* wf::Renderer called several times: Render and FlushCache.

MaxRenders == 4   \* calls made on the Renderer

TemplateKeys == {"foo", "bar"}

\* The component streams handed to Render, None for nullptr.
Components == {"Hello", "No cache", "{{ missing }}", "{% bad", None}

RenderData == {"ok", "empty value"}

\* Render(key, component, data, output).
CallRender ==
  /\ Len(out) < MaxRenders
  /\ \E key \in TemplateKeys, is \in Components, data \in RenderData :
       \E v \in {RendererRender(template_cache, key, is, data)} :
         /\ template_cache' = v.cache
         /\ out' = Append(out, [op |-> "render", key |-> key, is |-> is,
                                s |-> v.s, t |-> v.t, output |-> v.output,
                                before |-> template_cache, after |-> v.cache])
  /\ UNCHANGED <<hreq, hres, fs, mini, res_cookies, worker, inner>>
  /\ UNCHANGED dispatchVars

\* FlushCache().
CallFlushCache ==
  /\ Len(out) < MaxRenders
  /\ template_cache' = FlushCache(template_cache)
  /\ out' = Append(out, [op |-> "flush", key |-> None, is |-> None,
                         s |-> OkStatus, t |-> None, output |-> "",
                         before |-> template_cache, after |-> EmptyMap])
  /\ UNCHANGED <<hreq, hres, fs, mini, res_cookies, worker, inner>>
  /\ UNCHANGED dispatchVars

RenderNext ==
  \/ CallRender
  \/ CallFlushCache

RenderSpec == Init /\ [][RenderNext]_vars

----------------------------------------------------------------------------
\* Vocabulary of the properties.

\* Handle has returned and no handler is running.
Quiet == phase = "run" /\ stack = <<>>

\* The body of invocation id is still on the stack.
Running(id) ==
  \E k \in 1..Len(stack) :
    stack[k].f = "mw" /\ stack[k].id = id /\ stack[k].pc = "body"

\* Invocations of RouteEntries, and of error handlers.
RouteInvs == {id \in 1..Len(invs) : invs[id].who # 0}

ErrorInvs == {id \in 1..Len(invs) : invs[id].who = 0}

\* A Processor registered on a route returned success.
Claimed(id) ==
  /\ id \in RouteInvs
  /\ invs[id].kind = "proc"
  /\ ~Running(id)
  /\ invs[id].args = <<>>

\* C1: with every continuation called at most once, the terminal continuation
\* of Handle runs at most once in a dispatch, and it does not run at all when
\* a Processor on a route claimed the request by returning success.
C1_TerminalAtMostOnce ==
  /\ Len(termLog) <= 1
  /\ (\E id \in RouteInvs : Claimed(id)) => termLog = <<>>

\* C1 witness: a Middleware passed through, the Processor after it returned
\* success, Handle has returned and the terminal continuation never ran.
C1_Witness ==
  /\ Quiet
  /\ \E id \in RouteInvs : Claimed(id) /\ id > 1
  /\ invs[1].args = <<OkStatus>>
  /\ termLog = <<>>

\* The first matching RouteEntry after the one of invocation id, or
\* Len(routes) + 1.
NextMatch(id) == FirstMatch(routes, req, invs[id].who + 1)

\* C2: when the Middleware matched at index i returned without calling its
\* continuation and later called it exactly once with success, the dispatch
\* has gone on by the time that call returns: the next matching RouteEntry
\* after i was invoked, or the terminal continuation when none matches.
C2_DeferredContinuationResumes ==
  Quiet =>
    \A id \in RouteInvs :
      (invs[id].late /\ invs[id].args = <<OkStatus>>) =>
        IF NextMatch(id) <= Len(routes)
          THEN \E id2 \in RouteInvs : id2 > id /\ invs[id2].who = NextMatch(id)
          ELSE termLog # <<>>

\* The sink was given the headers, and its end() was invoked.
HeadEmitted == \E k \in 1..Len(sink) : sink[k].ev = "head" /\ sink[k].ok

SinkEnded == \E k \in 1..Len(sink) : sink[k].ev = "end"

\* The handler of invocation id finished the response or called its
\* continuation.
Resolved(id) == invs[id].args # <<>> \/ SinkEnded

\* C3: once every invoked Middleware has finished the response or called its
\* continuation (exactly once) and all calls have returned, the response is
\* terminated: the headers were emitted to the sink and its end() was invoked.
C3_ResponseTerminated ==
  (Quiet /\ \A id \in 1..Len(invs) : Resolved(id)) => (HeadEmitted /\ SinkEnded)

\* Every route matches, the last entry is a Processor and the ones before it
\* are Middleware.
PassThroughConfig ==
  /\ Len(routes) >= 2
  /\ \A j \in 1..Len(routes) :
       /\ Match(routes[j].route, req)
       /\ routes[j].kind = IF j < Len(routes) THEN "mw" ELSE "proc"

\* Every Middleware invoked on a route called next(ok) before it returned.
AllSyncPass ==
  \A id \in RouteInvs :
    invs[id].kind = "mw" =>
      (invs[id].args = <<OkStatus>> /\ ~invs[id].late /\ ~Running(id))

C5_InvokedIffReached ==
  /\ \A a \in RouteInvs, b \in RouteInvs : a < b => invs[a].who < invs[b].who
  /\ Quiet =>
       \A j \in 1..Len(routes) :
         (\E id \in RouteInvs : invs[id].who = j)
           <=> /\ Match(routes[j].route, req)
               /\ \A k \in 1..(j - 1) :
                    Match(routes[k].route, req) =>
                      \E id \in RouteInvs :
                        invs[id].who = k /\ invs[id].args = <<OkStatus>>

\* The handler of invocation id called its continuation with a failure.
Failed(id) == invs[id].args # <<>> /\ ~IsOk(invs[id].args[1])

\* C6: when a Middleware on a route calls its continuation with a failure, no
\* later RouteEntry is invoked in the dispatch, and that failure, with its code
\* and message, is what the terminal continuation of Handle is called with,
\* once (the call is either being entered or has been made).
C6_FailureShortCircuits ==
  \A id \in RouteInvs :
    Failed(id) =>
      /\ \A id2 \in RouteInvs : invs[id2].who <= invs[id].who
      /\ \/ Len(termLog) = 1 /\ termLog[1].s = invs[id].args[1]
         \/ /\ termLog = <<>>
            /\ stack # <<>> /\ Top.f = "next" /\ Top.pc = "entry" /\ Top.id = id

\* C6 witness: a Middleware failed while a later RouteEntry matches; the
\* failure reached the terminal continuation and Handle has returned.
C6_Witness ==
  /\ Quiet
  /\ \E id \in RouteInvs :
       /\ Failed(id)
       /\ invs[id].kind = "mw"
       /\ NextMatch(id) <= Len(routes)
       /\ Len(termLog) = 1 /\ termLog[1].s = invs[id].args[1]

\* The terminal continuation was called and has not run yet.
TermPending == stack # <<>> /\ Top.f = "terminal" /\ Top.pc = "entry"

\* The terminal continuation ran, once.
TermRan == Len(termLog) = 1 /\ ~TermPending

RanOff == NotFoundError(RanOffMsg)

\* Every matching RouteEntry was invoked and called next(ok) before returning.
AllMatchingPassed ==
  \A j \in 1..Len(routes) :
    Match(routes[j].route, req) =>
      \E id \in RouteInvs :
        /\ invs[id].who = j
        /\ invs[id].args = <<OkStatus>>
        /\ ~invs[id].late

GetRoot == RequirePath(RequireMethod(NewRoute, "get"), "/")

\* C7: when the scan runs off the end of the RouteEntry list (the terminal
\* continuation is called with success; it is when no entry matched or every
\* matching Middleware passed through) and the headers have not been emitted,
\* Handle records a NotFound failure on the response and runs the error cascade
\* for NotFound: the registered handler, or the diagnostic.  With only
\* Get("/", P) registered, GET / invokes P and GET /other runs off the end
\* without invoking P.
C7_RanOffTheEnd ==
  /\ (TermRan /\ IsOk(termLog[1].s) /\ ~termLog[1].hw) =>
       /\ res.error = RanOff
       /\ IF errors["not_found"] # None
            THEN \E id \in ErrorInvs :
                   invs[id].cap = RanOff /\ invs[id].h = errors["not_found"]
            ELSE Len(diagLog) = 1 /\ diagLog[1].ss = <<RanOff>>
  /\ (Quiet /\ AllMatchingPassed) => (Len(termLog) = 1 /\ IsOk(termLog[1].s))
  /\ (Quiet /\ routes = <<[route |-> GetRoot, kind |-> "proc"]>>) =>
       IF req.method = "get" /\ req.path = "/"
         THEN RouteInvs = {1} /\ invs[1].who = 1
         ELSE (req.path # "/") =>
                (RouteInvs = {} /\ termLog = <<[s |-> OkStatus, hw |-> FALSE]>>)

\* C7 witness: only Get("/", P) is registered, GET /other was dispatched, P was
\* not invoked and the NotFound failure is recorded on the response.
C7_Witness ==
  /\ Quiet
  /\ routes = <<[route |-> GetRoot, kind |-> "proc"]>>
  /\ req.method = "get" /\ req.path = "/other"
  /\ RouteInvs = {}
  /\ res.error = RanOff

\* The failure the terminal continuation handles: the one it was called with,
\* or the NotFound it makes of a success.
TermFailure == IF IsOk(termLog[1].s) THEN RanOff ELSE termLog[1].s

\* A failure reached the terminal continuation, which has run.
FailureHandled == TermRan /\ (~IsOk(termLog[1].s) \/ ~termLog[1].hw)

\* C8: when a failure S reaches the terminal continuation and a handler is
\* registered for its code, S is recorded on the response as soon as the
\* handler is invoked, the handler registered for the code is invoked exactly
\* once, and no diagnostic is written unless that handler itself failed.
C8_HandlerInvokedOnce ==
  (FailureHandled /\ errors[TermFailure.code] # None) =>
    /\ res.error = TermFailure
    /\ Cardinality(ErrorInvs) = 1
    /\ \A id \in ErrorInvs :
         /\ invs[id].cap = TermFailure
         /\ invs[id].h = errors[TermFailure.code]
         /\ diagLog # <<>> => Failed(id)

\* C8 witness: a Middleware failed, the handler for the code ran, wrote the
\* response and did not fail; no diagnostic was written.
C8_Witness ==
  /\ Quiet /\ FailureHandled
  /\ ~IsOk(termLog[1].s)
  /\ \E id \in ErrorInvs : invs[id].args = <<>>
  /\ SinkEnded
  /\ diagLog = <<>>

\* The sink accepted headers with status n and Content-Type text/plain.
SinkHead(n) ==
  \E k \in 1..Len(sink) :
    /\ sink[k].ev = "head" /\ sink[k].ok
    /\ sink[k].status = n /\ sink[k].ctype.type = "text/plain"

\* The sink was handed the chunk d (accepted: it did not fail).
SinkChunk(d) == \E k \in 1..Len(sink) : sink[k].ev = "chunk" /\ sink[k].data = d

SinkChunkOk(d) ==
  \E k \in 1..Len(sink) : sink[k].ev = "chunk" /\ sink[k].data = d /\ sink[k].ok

\* The sink was handed chunk d1 and, later, chunk d2.
SinkChunks(d1, d2, okOnly) ==
  \E k1 \in 1..Len(sink), k2 \in 1..Len(sink) :
    /\ k1 < k2
    /\ sink[k1].ev = "chunk" /\ sink[k1].data = d1 /\ (okOnly => sink[k1].ok)
    /\ sink[k2].ev = "chunk" /\ sink[k2].data = d2 /\ (okOnly => sink[k2].ok)

\* A failure reached the terminal continuation and no handler is registered
\* for its code.
Unhandled == FailureHandled /\ errors[TermFailure.code] = None

DblPending(id) ==
  stack # <<>> /\ Top.f = "dbl" /\ Top.pc = "entry" /\ Top.id = id

\* The error handler of invocation id failed and the Router has dealt with it.
DoubleFailed(id) == id \in ErrorInvs /\ Failed(id) /\ ~DblPending(id)

SinkEnds == Cardinality({k \in 1..Len(sink) : sink[k].ev = "end"})

\* C11: whatever the handlers and the error cascade of one dispatch do to the
\* Response, the sink's end() is invoked at most once.
C11_EndAtMostOnce == SinkEnds <= 1

\* The length of the sink's log after call i on the Response.
SinkAfter(i) == IF i < Len(calls) THEN calls[i + 1].n ELSE Len(sink)

\* What call i handed to the sink.
Emitted(i) == SubSeq(sink, calls[i].n + 1, SinkAfter(i))

\* Call i invoked the sink's end().
EndedBy(i) == \E k \in 1..Len(Emitted(i)) : Emitted(i)[k].ev = "end"

\* C12: once the sink's end() was invoked through End() or End(data) the
\* Response is finished and stays finished, and every later Write returns a
\* failure and hands nothing to the sink.
C12_FinishedIsFinal ==
  \A i \in 1..Len(calls) :
    EndedBy(i) =>
      /\ res.finished
      /\ \A j \in (i + 1)..Len(calls) :
           /\ calls[j].pre.finished
           /\ calls[j].op = "write" => (~IsOk(calls[j].s) /\ Emitted(j) = <<>>)

\* The Response after call i.
PostOf(i) == IF i < Len(calls) THEN calls[i + 1].pre ELSE res

\* Call i is End(data) on a Response whose headers are not yet written.
FreshEndData(i) == calls[i].op = "enddata" /\ ~calls[i].pre.head_written

\* How many events of kind ev call i handed to the sink.
EmittedCount(i, ev) ==
  Cardinality({k \in 1..Len(Emitted(i)) : Emitted(i)[k].ev = ev})

\* C13 as stated: End(data) on a Response whose headers are not yet written
\* sets Content-Length to the size of data, and the sink observes exactly one
\* writeHead, one writeChunk(data) (none when writeHead failed) and one end(),
\* in that order; end() is invoked even when writeHead or writeChunk fails,
\* and the failure is returned.
C13_EndDataSequence ==
  \A i \in 1..Len(calls) :
    FreshEndData(i) =>
      LET E == Emitted(i)
      IN /\ PostOf(i).clen = DataSize(calls[i].d)
         /\ EmittedCount(i, "head") = 1 /\ EmittedCount(i, "end") = 1
         /\ E[1].ev = "head" /\ E[Len(E)].ev = "end"
         /\ IF E[1].ok
              THEN /\ Len(E) = 3
                   /\ E[2].ev = "chunk" /\ E[2].data = calls[i].d
                   /\ IsOk(calls[i].s) <=> E[2].ok
              ELSE Len(E) = 2 /\ ~IsOk(calls[i].s)

\* C13 as amended: End(data) on a Response bound to a sink whose headers are
\* not yet written sets Content-Length to the size of data and invokes the
\* sink's end() exactly once, last, whether or not writeHead or writeChunk
\* failed; the failure is returned.  When writeHead succeeds the sink observes
\* one writeHead carrying that Content-Length, then one writeChunk(data)
\* unless the request is a HEAD request (then no chunk at all), then end();
\* when writeHead fails no chunk is handed over and writeHead is attempted a
\* second time before end().
C13_EndDataAmended ==
  \A i \in 1..Len(calls) :
    (FreshEndData(i) /\ calls[i].pre.writer # None) =>
      LET E == Emitted(i)
      IN /\ PostOf(i).clen = DataSize(calls[i].d)
         /\ EmittedCount(i, "end") = 1
         /\ E[1].ev = "head" /\ E[1].clen = DataSize(calls[i].d)
         /\ E[Len(E)].ev = "end"
         /\ IF ~E[1].ok
              THEN /\ Len(E) = 3 /\ E[2].ev = "head"
                   /\ ~IsOk(calls[i].s)
            ELSE IF calls[i].pre.is_head
              THEN Len(E) = 2 /\ IsOk(calls[i].s)
            ELSE /\ Len(E) = 3
                 /\ E[2].ev = "chunk" /\ E[2].data = calls[i].d
                 /\ IsOk(calls[i].s) <=> E[2].ok

\* C13 witness: End(data) on a fresh Response whose sink accepted the headers
\* and failed the chunk; end() was invoked and the failure returned.
C13_Witness ==
  \E i \in 1..Len(calls) :
    /\ FreshEndData(i)
    /\ Len(Emitted(i)) = 3
    /\ Emitted(i)[2].ev = "chunk" /\ ~Emitted(i)[2].ok
    /\ Emitted(i)[3].ev = "end"
    /\ ~IsOk(calls[i].s)

\* C14: once the headers are written (or the Response is finished) a further
\* WriteHead returns OK, hands nothing to the sink and changes no header; the
\* charset suffix is therefore appended to Content-Type exactly once: the
\* Content-Type of the Response never carries more than one, and the headers a
\* sink accepted carry exactly one, after the type that was set or after
\* application/octet-stream.
C14_WriteHeadIdempotent ==
  /\ \A i \in 1..Len(calls) :
       (/\ calls[i].op = "writehead"
        /\ (calls[i].pre.head_written \/ calls[i].pre.finished)) =>
         /\ IsOk(calls[i].s)
         /\ Emitted(i) = <<>>
         /\ PostOf(i) = calls[i].pre
  /\ res.ctype.charsets <= 1
  /\ \A k \in 1..Len(sink) :
       (sink[k].ev = "head" /\ sink[k].ok) =>
         /\ sink[k].ctype.charsets = 1
         /\ sink[k].ctype.type \in
              {"application/octet-stream", "text/plain", "text/html"}

\* The sink accepted headers before its event k.
HeadAcceptedBefore(k) == \E j \in 1..(k - 1) : sink[j].ev = "head" /\ sink[j].ok

\* C15: the sink is never handed a body chunk before it accepted the headers;
\* a Write on a Response whose headers are not yet written emits the headers
\* first, and when that fails it returns the failure and hands no chunk to the
\* sink; head-written is true exactly from the first accepted header emission
\* on and never reverts.
C15_HeadBeforeBody ==
  /\ \A k \in 1..Len(sink) : sink[k].ev = "chunk" => HeadAcceptedBefore(k)
  /\ \A i \in 1..Len(calls) :
       /\ (calls[i].op = "write" /\ ~calls[i].pre.head_written) =>
            LET E == Emitted(i)
            IN /\ calls[i].pre.writer # None => (E # <<>> /\ E[1].ev = "head")
               /\ (E = <<>> \/ ~E[1].ok) =>
                    /\ ~IsOk(calls[i].s)
                    /\ EmittedCount(i, "chunk") = 0
                    /\ ~PostOf(i).head_written
       /\ calls[i].pre.head_written => PostOf(i).head_written
       /\ PostOf(i).head_written <=> HeadAcceptedBefore(SinkAfter(i) + 1)
  /\ res.head_written <=> HeadAcceptedBefore(Len(sink) + 1)

\* C15 witness: a Write on a fresh Response whose sink failed writeHead
\* returned the failure, and the sink was handed the headers only.
C15_Witness ==
  \E i \in 1..Len(calls) :
    /\ calls[i].op = "write" /\ ~calls[i].pre.head_written
    /\ Len(Emitted(i)) = 1
    /\ Emitted(i)[1].ev = "head" /\ ~Emitted(i)[1].ok
    /\ ~IsOk(calls[i].s)

RECURSIVE Replay(_, _, _)
\* The calls from the i-th on, made on Response r bound to a sink with log k.
Replay(i, r, k) ==
  IF i > Len(calls) THEN Ret(r, k, OkStatus)
  ELSE LET x == Call(calls[i].op, calls[i].d, r, k)
       IN Replay(i + 1, x.r, x.k)

\* The same request made with GET, and the Response the handler is given for
\* it, bound to the same sink.
GetTwin ==
  FromRequest([req EXCEPT !.method = "get"],
              IF calls = <<>> THEN res.writer ELSE calls[1].pre.writer)

\* The events of a sink log that are not body chunks.
NonChunk(k) == SelectSeq(k, LAMBDA e : e.ev # "chunk")

\* A request was served by a Router whose only RouteEntry is Get("/", P).
ServedByGetRoot == phase # "setup" /\ routes[1].route = GetRoot

\* C16: a HEAD request to a path registered only under Get is matched, so the
\* handler registered for GET runs; the sink of its Response is never handed a
\* body chunk, and its writeHead and end() are invoked as they are when the
\* handler makes the same calls for the GET request: same events, same status,
\* same headers.
C16_HeadLikeGet ==
  (ServedByGetRoot /\ req.path = "/" /\ req.method \in {"get", "head"}) =>
    /\ phase = "handler"
    /\ req.method = "head" =>
         /\ \A k \in 1..Len(sink) : sink[k].ev # "chunk"
         /\ sink = NonChunk(Replay(1, GetTwin, <<>>).k)

\* C16 witness: the handler of Get("/") served HEAD / with status 404 and
\* End(data); the sink observed the headers, with the Content-Length of the
\* data, and end(), and the GET twin has a body chunk.
C16_Witness ==
  /\ ServedByGetRoot /\ req.path = "/" /\ req.method = "head"
  /\ Len(sink) = 2
  /\ sink[1].ev = "head" /\ sink[1].ok
  /\ sink[1].status = 404 /\ sink[1].clen = DataSize(HelloBody)
  /\ sink[2].ev = "end"
  /\ Len(Replay(1, GetTwin, <<>>).k) = 3

\* Every matcher the Route has agrees with the Request.
Agrees(r, q) ==
  /\ r.method = None \/ r.method = q.method
       \/ (r.method = "get" /\ q.method = "head")
  /\ r.host = None \/ (q.host # None /\ q.host = r.host)
  /\ r.path = None \/ r.path = q.path

\* The step is a call of Route::Match.
MatchStep == phase' \in {"match", "nomatch"}

\* C17: Route::Match returns true exactly when every matcher the Route has
\* agrees with the Request (method equal, or "get" against "head"; host equal
\* to the Host header, which must exist; path equal); a Route with no matcher
\* matches every Request; a "head" matcher does not accept a GET request; and
\* the call changes neither the Route nor the Request.
C17_MatchExactly ==
  [][MatchStep =>
       /\ routes' = routes /\ req' = req
       /\ (phase' = "match") <=> Agrees(routes[1].route, req)
       /\ routes[1].route = NewRoute => phase' = "match"
       /\ (routes[1].route.method = "head" /\ req.method = "get")
            => phase' = "nomatch"]_vars

\* C17 witness: a Route requiring method get, a host and a path was matched
\* against a HEAD request carrying that host and path, and Match returned
\* true.
C17_Witness ==
  /\ phase = "match"
  /\ routes[1].route = [method |-> "get", host |-> "a.example", path |-> "/other"]
  /\ req = [method |-> "head", host |-> "a.example", path |-> "/other"]

\* C18: the method comparison of Route::Match is case-insensitive on both
\* sides: a Route whose method matcher was set in any letter case matches a
\* Request whose method was given in any letter case of the same method (its
\* other matchers agreeing).
C18_MethodCaseInsensitive ==
  (/\ phase \in {"match", "nomatch"}
   /\ routes[1].route.method # None
   /\ CaseInsensitive(routes[1].route.method) = req.method
   /\ Agrees([routes[1].route EXCEPT !.method = None], req))
    => phase = "match"

\* Invocations of Processors.
ProcInvs == {id \in 1..Len(invs) : invs[id].kind = "proc"}

\* C19: the adapter runs the two-argument handler of a Processor once per
\* invocation of its RouteEntry; when the handler returned a failure the
\* adapter has called next exactly once, with that failure, which is what the
\* terminal continuation receives; when it returned success the adapter never
\* calls next, no later RouteEntry is invoked and the terminal continuation is
\* not called.
C19_ProcessorAdapter ==
  /\ \A a \in RouteInvs, b \in RouteInvs : invs[a].who = invs[b].who => a = b
  /\ \A id \in ProcInvs :
       /\ Running(id) => (invs[id].ret = NoStatus /\ invs[id].args = <<>>)
       /\ ~Running(id) =>
            /\ invs[id].ret # NoStatus /\ ~invs[id].late
            /\ invs[id].args =
                 IF IsOk(invs[id].ret) THEN <<>> ELSE <<invs[id].ret>>
       /\ (id \in RouteInvs /\ ~Running(id)) =>
            IF IsOk(invs[id].ret)
              THEN /\ \A id2 \in RouteInvs : id2 <= id
                   /\ termLog = <<>>
              ELSE /\ \A id2 \in RouteInvs : id2 <= id
                   /\ termLog # <<>> => termLog = <<[s |-> invs[id].ret,
                                                     hw |-> termLog[1].hw]>>

\* C19 witness: a Processor on a route returned a failure while a later
\* RouteEntry matches; the adapter passed the failure on once, it reached the
\* terminal continuation, and Handle has returned.
C19_Witness ==
  /\ Quiet
  /\ \E id \in ProcInvs \cap RouteInvs :
       /\ invs[id].ret \in UserFailures
       /\ invs[id].args = <<invs[id].ret>>
       /\ NextMatch(id) <= Len(routes)
       /\ Len(termLog) = 1 /\ termLog[1].s = invs[id].ret

\* C20: the table holds one handler per status code, the one of the latest
\* Error(code, ..): a failure with that code invokes that handler, and a
\* handler registered for the code earlier is never invoked.
C20_LatestHandlerOnly ==
  /\ \A c \in Codes : <<c, errors[c]>> \notin replaced
  /\ \A id \in ErrorInvs :
       /\ invs[id].h = errors[invs[id].cap.code]
       /\ \A c \in Codes : <<c, invs[id].h>> \notin replaced

\* C20 witness: two handlers were registered for one code, a failure with
\* that code reached the terminal continuation, the later handler was invoked
\* and Handle has returned.
C20_Witness ==
  /\ Quiet
  /\ \E id \in ErrorInvs, h \in ErrHandlers :
       /\ <<invs[id].cap.code, h>> \in replaced
       /\ invs[id].h # h
       /\ invs[id].h = errors[invs[id].cap.code]

\* Call i is Response::Render.
IsRender(i) == calls[i].op \in {"render", "renderfail"}

\* C21: Render emits the headers when they are not yet written and, when it
\* is done writing the rendered data, ends the response: the sink's end() has
\* been invoked when Render returns, after a successful render and after a
\* failed one.
C21_RenderEnds ==
  \A i \in 1..Len(calls) :
    (IsRender(i) /\ calls[i].pre.writer # None) =>
      /\ ~calls[i].pre.head_written => Emitted(i)[1].ev = "head"
      /\ EndedBy(i)

\* C22: on a Response with no sink attached WriteHead, Write and End(data)
\* return an Unavailable failure, and no operation uses the missing sink.
C22_NoSinkIsAValue ==
  \A i \in 1..Len(calls) :
    calls[i].pre.writer = None =>
      /\ calls[i].op \in {"writehead", "write", "enddata"}
           => calls[i].s.code = "unavailable"
      /\ ~PostOf(i).fault

----------------------------------------------------------------------------
\* Body parsers.

\* The gate of ParseURLEncoded that stops a request, "" when none does.
UrlEncodedGate(q) ==
  IF q.method \in {"get", "head", "options"} THEN "no request body allowed"
  ELSE IF ~Contains(q.headers, "content-type")
    THEN "no Content-Type header for URLEncoded"
  ELSE IF q.headers["content-type"] # "application/x-www-form-urlencoded"
    THEN "incorrect Content-Type for URLEncoded"
  ELSE IF ~Contains(q.headers, "content-length") THEN "no Content-Length header"
  ELSE ""

\* C23: ParseURLEncoded returns FailedPrecondition, with the stream unread and
\* the output map unchanged, when the method is GET, HEAD or OPTIONS, else when
\* Content-Type is absent or not exactly application/x-www-form-urlencoded,
\* else when Content-Length is absent, in this order; otherwise it reads
\* exactly Content-Length bytes and adds their query-string decoding to the map.
C23_UrlEncodedGates ==
  \A i \in 1..Len(out) :
    out[i].op = "urlencoded" =>
      LET c == out[i]
          gate == UrlEncodedGate(hreq)
          n == Len(c.stream0.data) - Len(c.stream.data)
      IN IF gate # ""
           THEN /\ ~c.threw
                /\ c.s = FailedPreconditionError(gate)
                /\ c.stream = c.stream0
                /\ c.data = c.data0
           ELSE /\ ~c.threw
                /\ IsOk(c.s)
                /\ n = StoUL(hreq.headers["content-length"])
                /\ c.data = ParseQueryString(SubSeq(c.stream0.data, 1, n),
                                             c.data0)

\* C24: ParseJSON returns FailedPrecondition when the method is GET, HEAD or
\* OPTIONS or Content-Type is absent or not exactly application/json; adding
\* or removing Content-Length does not change what it returns; a body behind
\* the gates that is no JSON value yields InvalidArgument; no exception leaves.
C24_JsonGates ==
  \A i \in 1..Len(out) :
    out[i].op = "json" =>
      LET c == out[i]
          q == [hreq EXCEPT !.stream = c.stream0]
          gated == \/ q.method \in {"get", "head", "options"}
                   \/ ~Contains(q.headers, "content-type")
                   \/ q.headers["content-type"] # "application/json"
          same(p) == p.s = c.s /\ p.data = c.data /\ p.threw = c.threw
      IN /\ ~c.threw
         /\ gated => c.s.code = "failed_precondition" /\ c.data = c.data0
         /\ (~gated /\ ~c.stream0.null /\ ~JsonParses(c.stream0.data))
              => c.s.code = "invalid_argument"
         /\ (~gated /\ ~c.stream0.null /\ JsonParses(c.stream0.data))
              => IsOk(c.s)
         /\ same(ParseJSON([q EXCEPT !.headers = Remove(@, "content-length")],
                           c.data0))
         /\ \A v \in {"3", "abc"} :
              same(ParseJSON([q EXCEPT !.headers = Put(@, "content-length", v)],
                             c.data0))

C24_Witness ==
  \E i \in 1..Len(out) :
    /\ out[i].op = "json" /\ out[i].s.code = "invalid_argument"
    /\ out[i].stream0.data # <<>>
    /\ ~Contains(hreq.headers, "content-length")

----------------------------------------------------------------------------
\* Query strings.

\* The decoded key and the decoded value of a pair as it was written.
KeyOf(p) == URLDecode(p.k)

ValueOf(p) == IF p.eq THEN URLDecode(p.v) ELSE <<"1">>

\* The pairs in another order.
Reordered(ps, f) == [i \in DOMAIN ps |-> ps[f[i]]]

Orders(ps) ==
  {f \in [DOMAIN ps -> DOMAIN ps] : \A i, j \in DOMAIN ps : f[i] = f[j] => i = j}

\* C25: ParseQueryString adds, for each '&'-separated pair, the decoded key
\* with its decoded value ("1" without a '=') unless the key is in the map
\* already: the first occurrence of a key wins, keys present before the call
\* keep their values, and without duplicate keys the order of the pairs does
\* not change the resulting map.
C25_FirstKeyWins ==
  \A i \in 1..Len(out) :
    out[i].op = "query" =>
      LET c == out[i]
          ps == c.pairs
          first(k) == CHOOSE j \in DOMAIN ps :
                        KeyOf(ps[j]) = k /\ \A l \in 1..(j - 1) : KeyOf(ps[l]) # k
      IN /\ DOMAIN c.q = DOMAIN c.q0 \cup {KeyOf(ps[j]) : j \in DOMAIN ps}
         /\ \A k \in DOMAIN c.q0 : c.q[k] = c.q0[k]
         /\ \A k \in DOMAIN c.q \ DOMAIN c.q0 : c.q[k] = ValueOf(ps[first(k)])
         /\ (\A j, l \in DOMAIN ps : KeyOf(ps[j]) = KeyOf(ps[l]) => j = l)
              => \A f \in Orders(ps) :
                   ParseQueryString(QueryText(Reordered(ps, f)), c.q0) = c.q

C25_Witness ==
  \E i \in 1..Len(out) :
    /\ out[i].op = "query"
    /\ out[i].q0 # EmptyMap
    /\ \E j, l \in DOMAIN out[i].pairs :
         /\ j < l
         /\ KeyOf(out[i].pairs[j]) = KeyOf(out[i].pairs[l])
         /\ ValueOf(out[i].pairs[j]) # ValueOf(out[i].pairs[l])
         /\ KeyOf(out[i].pairs[j]) \notin DOMAIN out[i].q0

----------------------------------------------------------------------------
\* Names of headers and cookies.

\* Two names that differ in letter case only.
SameName(kind, n, m) ==
  IF kind = "cookie"
    THEN CaseInsensitiveChars(n) = CaseInsensitiveChars(m)
    ELSE CaseInsensitive(n) = CaseInsensitive(m)

Spellings(kind) == IF kind = "cookie" THEN CookieSpellings ELSE HeaderSpellings

\* The lookup of a name on the object a value of this kind is stored in.
Lookup(kind, n) ==
  CASE kind = "request header" -> HttpHeaderGet(hreq, n)
    [] kind = "cookie" -> HttpCookieGet(hreq, n)
    [] OTHER -> ResHeaderGet(hres, n)

\* Entry i of the log is the last value stored under its name.
LastStored(i) ==
  \A j \in (i + 1)..Len(out) :
    out[j].kind = out[i].kind => ~SameName(out[i].kind, out[j].name, out[i].name)

\* C26: after a value is stored under a name by Request::Header(name, value),
\* Response::Header(name, value), Request::Cookie(name, value) or by a Cookie
\* request header, the lookup under every letter-case variant of the name
\* returns that value.
C26_CaseInsensitiveLookup ==
  \A i \in 1..Len(out) :
    (out[i].kind \in {"request header", "cookie", "response header"}
       /\ LastStored(i)) =>
      \A n \in Spellings(out[i].kind) :
        SameName(out[i].kind, n, out[i].name) =>
          Lookup(out[i].kind, n) = Found(out[i].value)

----------------------------------------------------------------------------
\* Static responders.

\* The StaticMiddleware has run on a path under its base.
MiddlewareRan == out # <<>> /\ out[1].ev = "middleware"

UnderBase == StartsWith(hreq.path, StaticBase)

\* The request path behind the base, and the same without leading '/'.
Remainder == SubSeq(hreq.path, Len(StaticBase) + 1, Len(hreq.path))

RECURSIVE StripSlashes(_)
StripSlashes(s) ==
  IF s # <<>> /\ Head(s) = "/" THEN StripSlashes(Tail(s)) ELSE s

\* A segment of the text is "..".
HasDotDotSegment(s) ==
  \E i \in DOMAIN StrSplit(s, "/") : StrSplit(s, "/")[i] = <<".", ".">>

NextCalls == SelectSeq(out, LAMBDA e : e.ev = "next")

Touched(ev) == \E i \in DOMAIN out : out[i].ev = ev

\* C27: when the path behind the base has a ".." segment, the StaticMiddleware
\* calls next once with NotFound, touches no file and leaves the Response as
\* it was; a ".." inside a longer segment is not rejected as a traversal.
C27_DotDotRejected ==
  (MiddlewareRan /\ UnderBase) =>
    /\ HasDotDotSegment(Remainder) =>
         /\ Len(NextCalls) = 1 /\ NextCalls[1].s.code = "not_found"
         /\ ~Touched("fs") /\ ~Touched("abort")
         /\ res = FromRequest(hreq, "ok") /\ sink = <<>> /\ hres = EmptyMap
    /\ ~HasDotDotSegment(Remainder) =>
         \A i \in DOMAIN NextCalls :
           NextCalls[i].s # NotFoundError("path traversal attempt detected")

C27_Witness ==
  /\ MiddlewareRan
  /\ Remainder = <<"a", "/", ".", ".">>
  /\ Len(NextCalls) = 1

\* The file the StaticMiddleware resolves is a regular file.
ResolvesToFile == Resolve(StripSlashes(Remainder)) \in {"file", "locked"}

\* C28: one invocation of the StaticMiddleware ends in exactly one of: next
\* called once (with success when the path is not under the base or names no
\* regular file, with a failure otherwise), or the response finished.
C28_ExactlyOneOutcome ==
  MiddlewareRan =>
    /\ ~Touched("abort")
    /\ \/ Len(NextCalls) = 1 /\ SinkEnds = 0
       \/ Len(NextCalls) = 0 /\ SinkEnds = 1
    /\ Len(NextCalls) = 1 =>
         (IsOk(NextCalls[1].s) <=>
            (~UnderBase \/ (~HasDotDotSegment(Remainder) /\ ~ResolvesToFile)))

\* The file a responder was asked for.
ServedNode ==
  IF out[1].ev = "processor" THEN Resolve(out[1].name)
  ELSE IF UnderBase /\ ~HasDotDotSegment(Remainder) /\ StripSlashes(Remainder) # <<>>
    THEN Resolve(StripSlashes(Remainder))
  ELSE "absent"

\* The request carries an If-Modified-Since date at or after the second the
\* file was modified in.
NotModifiedSince ==
  /\ Contains(hreq.headers, "if-modified-since")
  /\ ParseHTTPDate(hreq.headers["if-modified-since"]) >= 0
  /\ HTTPTruncateTime(fs.mtime) <= ParseHTTPDate(hreq.headers["if-modified-since"])

\* The heads the sink was handed, and the number of body bytes.
HeadsSent == SelectSeq(sink, LAMBDA e : e.ev = "head")

RECURSIVE BytesIn(_)
BytesIn(k) ==
  IF k = <<>> THEN 0
  ELSE (IF Head(k).ev = "chunk" THEN DataSize(Head(k).data) ELSE 0)
         + BytesIn(Tail(k))

BytesSent == BytesIn(sink)

\* C29: serving an existing regular file, the static responders set
\* Content-Length to the size of the file, answer 304 without body bytes
\* exactly when If-Modified-Since parses as an HTTP date and the modification
\* time cut to the second is not after that date, and serve the file with 200
\* and without failure otherwise, a malformed If-Modified-Since included.
C29_StaticFileHeaders ==
  (out # <<>> /\ out[1].ev \in {"middleware", "processor"}
     /\ ServedNode \in {"file", "locked"}) =>
    /\ res.clen = DataSize(FileData(ServedNode))
    /\ NotModifiedSince =>
         /\ HeadsSent # <<>> /\ HeadsSent[1].status = 304
         /\ BytesSent = 0
         /\ SinkEnds = 1
    /\ (~NotModifiedSince /\ ServedNode = "file") =>
         /\ HeadsSent # <<>> /\ HeadsSent[1].status = 200
         /\ HeadsSent[1].clen = DataSize(FileData(ServedNode))
         /\ SinkEnds = 1
         /\ \A i \in DOMAIN out : IsOk(out[i].s) \/ out[i].s = NoStatus

----------------------------------------------------------------------------
\* Minifier.

\* Thread t holds the lock of Minify.
InFlight(t) == mini.pc[t] \in {"write type", "write source", "flush", "read"}

\* What was written to a request stream is a sequence of whole frames, each
\* the type and the source of one request; the last one may still lack its
\* source.
WellFramed(h) ==
  \A i \in DOMAIN h :
    IF i % 2 = 1 THEN h[i].part = "type"
    ELSE h[i].part = "source" /\ h[i].of = h[i - 1].of

\* C30: concurrent Minify calls on one Minifier are serialised: at most one
\* request is in flight, the frames of two requests are never mixed on a
\* request stream, every caller that returns was handed the answer to its
\* own request, and no call ends the process.
C30_MinifySerialized ==
  /\ ~mini.crashed
  /\ \A t, u \in Threads : (InFlight(t) /\ InFlight(u)) => t = u
  /\ \A w \in Workers : WellFramed(mini.written[w])
  /\ \A t \in Threads : mini.pc[t] = "done" => mini.got[t] = t

----------------------------------------------------------------------------
\* The RouteEntry invocations follow the table: the first is of the first
\* matching entry, every later one of the first matching entry behind an
\* earlier one.
FollowsTable ==
  \A id \in RouteInvs :
    \/ /\ \A id2 \in RouteInvs : id2 >= id
       /\ invs[id].who = FirstMatch(routes, req, 1)
    \/ \E id2 \in RouteInvs : id2 < id /\ invs[id].who = NextMatch(id2)

\* A step of a dispatch: Handle is called, or has been called.
DispatchStep == phase = "run" \/ phase' = "run"

\* C31: dispatching never changes the Router's tables: no step of Handle or
\* of operator() changes the RouteEntry list or the error-handler table, and
\* the entries invoked are the ones the scan of that table finds for the
\* request, in its order.
C31_TablesReadOnly ==
  [][DispatchStep => (routes' = routes /\ errors' = errors /\ FollowsTable')]_vars

\* C31 witness: two RouteEntries were invoked in turn, the scan ran off the
\* end and the handler found in the table for NotFound was invoked.
C31_Witness ==
  /\ Quiet
  /\ Cardinality(RouteInvs) = 2
  /\ \E id \in ErrorInvs : invs[id].h = errors["not_found"]

----------------------------------------------------------------------------
\* Call i on the Renderer is a Render under key k.
RenderUnder(i, k) == out[i].op = "render" /\ out[i].key = k

\* The last FlushCache before call i, or 0.
FlushBefore(i) ==
  IF \E f \in 1..(i - 1) : out[f].op = "flush"
    THEN CHOOSE f \in 1..(i - 1) :
           out[f].op = "flush" /\ \A g \in (f + 1)..(i - 1) : out[g].op # "flush"
    ELSE 0

\* The Renders under the key of call i since the last FlushCache.
EarlierRenders(i) ==
  {j \in (FlushBefore(i) + 1)..(i - 1) : RenderUnder(j, out[i].key)}

\* The template source call i supplies: its stream, or the file of its key.
Supplied(i) == IF out[i].is = None THEN TemplateFile(out[i].key) ELSE out[i].is

\* C32: after a successful Render under key k every later Render under k
\* uses the template of that Render and not its own component stream, until
\* FlushCache is called; the first Render under k after a FlushCache parses
\* the component it is given; a Render whose template fails to parse leaves
\* the cache as it was.
C32_CachedUntilFlushed ==
  \A i \in 1..Len(out) :
    out[i].op = "render" =>
      /\ \A j \in EarlierRenders(i) :
           IsOk(out[j].s) => (out[i].t = out[j].t /\ out[i].after = out[i].before)
      /\ (EarlierRenders(i) = {} /\ Supplied(i) # None) =>
           IF Parses(Supplied(i))
             THEN out[i].t = Supplied(i) /\ out[i].after[out[i].key] = Supplied(i)
             ELSE out[i].s.code = "aborted"
      /\ out[i].s = AbortedError("failed to parse template") =>
           out[i].after = out[i].before

\* C32 witness: a Render under "foo" succeeded, a Render under "foo" handed
\* another component gave the output of the first, and after FlushCache a
\* Render under "foo" gave the output of the component it was handed.
C32_Witness ==
  /\ Len(out) = 4
  /\ RenderUnder(1, "foo") /\ out[1].is = "Hello" /\ IsOk(out[1].s)
  /\ RenderUnder(2, "foo") /\ out[2].is = "No cache"
  /\ out[2].output = "Hello"
  /\ out[3].op = "flush"
  /\ RenderUnder(4, "foo") /\ out[4].is = "No cache"
  /\ out[4].output = "No cache"

----------------------------------------------------------------------------
\* The step of an error handler that settles the failure: its continuation
\* is entered with success, or the handler returns with nothing more to call.
HandlerSettles ==
  /\ stack # <<>>
  /\ \/ Top.f = "dbl" /\ Top.pc = "entry" /\ IsOk(Top.s)
     \/ /\ Top.f = "mw" /\ Top.pc = "body" /\ invs[Top.id].who = 0
        /\ Len(stack') < Len(stack)

\* An error handler was selected and none reported a failure.
HandlerSettled == ErrorInvs # {} /\ \A id \in ErrorInvs : ~Failed(id)

\* When no handler body touched the response, it is as Handle recorded the
\* failure on it.
LeftAsRecorded ==
  (Quiet /\ HandlerSettled /\ nops = 0) =>
    /\ sink = <<>>
    /\ diagLog = <<>>
    /\ res = SetError(FromRequest(req, "ok"), TermFailure)

\* C33: when the error handler selected for a failure calls its continuation
\* with success, or returns without calling it, the Router does nothing more
\* to the response: that step writes no diagnostic and leaves the Response
\* (status, headers) and the sink as they were, and a response no handler
\* body touched is left unwritten and unended.
C33_HandledMeansDone ==
  [][HandlerSettles =>
       (res' = res /\ sink' = sink /\ diagLog' = diagLog /\ LeftAsRecorded')]_vars

\* C33 witness: the selected error handler called its continuation with
\* success, all calls have returned and nothing reached the sink.
C33_Witness ==
  /\ Quiet
  /\ \E id \in ErrorInvs : invs[id].args = <<OkStatus>>
  /\ nops = 0
  /\ sink = <<>>

----------------------------------------------------------------------------
\* The terminal continuation is entered with success after the sink accepted
\* the headers.
CompletionReachesTerminal ==
  /\ stack # <<>> /\ Top.f = "terminal" /\ Top.pc = "entry"
  /\ IsOk(Top.s)
  /\ res.head_written

\* C34: when success reaches the terminal continuation of Handle after the
\* response headers were emitted, the Router records no error on the
\* response, invokes no error handler, writes no diagnostic and leaves the
\* Response and the sink exactly as they were: nothing written, no status
\* change, no end().
C34_CompletionLeftAlone ==
  [][CompletionReachesTerminal =>
       (res' = res /\ sink' = sink /\ invs' = invs /\ diagLog' = diagLog)]_vars

\* C34 witness: a Middleware wrote to the response and passed through, the
\* terminal continuation ran with success and headers emitted, and the
\* response rests as the Middleware left it, not ended.
C34_Witness ==
  /\ Quiet
  /\ termLog = <<[s |-> OkStatus, hw |-> TRUE]>>
  /\ ErrorInvs = {}
  /\ IsOk(res.error)
  /\ HeadEmitted /\ ~SinkEnded

----------------------------------------------------------------------------
\* Invocations of the nested Router, of its RouteEntries, and of the
\* RouteEntries of the Router Handle was called on.
RouterInvs == {n \in 1..Len(invs) : invs[n].kind = "router"}

InnerInvs == {id \in 1..Len(invs) : invs[id].up # 0}

OuterInvs == {id \in 1..Len(invs) : invs[id].who # 0 /\ invs[id].up = 0}

\* The scan of the nested Router invoked as n ran off its end: it called the
\* continuation it was given with success.
InnerRanOff(n) == invs[n].args = <<OkStatus>>

\* (a) the outer scan goes on, once, with the entry behind the nested Router.
OuterContinues ==
  \A n \in RouterInvs :
    /\ (Quiet /\ InnerRanOff(n)) =>
         IF NextMatch(n) <= Len(routes)
           THEN Cardinality({id \in OuterInvs : invs[id].who = NextMatch(n)}) = 1
           ELSE Len(termLog) = 1 /\ IsOk(termLog[1].s)
    /\ \A j \in 1..Len(routes) :
         Cardinality({id \in OuterInvs : invs[id].who = j}) <= 1

\* (b) a failure raised in the nested Router reaches the terminal
\* continuation of Handle once and is resolved with the table of the Router
\* Handle was called on.
InnerFailureResolvedOutside ==
  /\ \A id \in 1..Len(invs) : invs[id].h # InnerHandler
  /\ \A id \in InnerInvs :
       (Quiet /\ Failed(id)) =>
         /\ Len(termLog) = 1
         /\ termLog[1].s = invs[id].args[1]
         /\ IF errors[invs[id].args[1].code] # None
              THEN /\ Cardinality(ErrorInvs) = 1
                   /\ \A e \in ErrorInvs :
                        /\ invs[e].h = errors[invs[id].args[1].code]
                        /\ invs[e].cap = invs[id].args[1]
              ELSE /\ ErrorInvs = {}
                   /\ Len(diagLog) = 1
                   /\ diagLog[1].ss = <<invs[id].args[1]>>

\* (c) a Processor of the nested Router that claimed the request ends the
\* dispatch: no entry behind the nested Router runs, nor the terminal
\* continuation.
InnerClaimEndsDispatch ==
  \A id \in InnerInvs :
    (invs[id].kind = "proc" /\ ~Running(id) /\ invs[id].args = <<>>) =>
      /\ \A o \in OuterInvs : invs[o].who <= invs[invs[id].up].who
      /\ termLog = <<>>

\* C35: a Router registered as a Middleware of an outer Router composes with
\* the outer scan: when the inner scan runs off its end the outer scan goes
\* on, once, with the entry behind the inner Router; a failure raised inside
\* the inner Router reaches the terminal continuation of the outer Handle
\* once and is resolved with the outer table, never with a handler
\* registered on the inner Router; and when a Processor of the inner Router
\* claims the request no further outer entry runs.
C35_NestedRouterComposes ==
  /\ OuterContinues
  /\ InnerFailureResolvedOutside
  /\ InnerClaimEndsDispatch

\* C35 witness: the inner Router holds a Middleware that passed through and
\* has a handler for the failure; the outer scan went on to the Processor
\* behind the inner Router, which failed, and the handler of the outer table
\* ran.
C35_Witness ==
  /\ Quiet
  /\ Len(routes) = 2 /\ routes[1].kind = "router" /\ routes[2].kind = "proc"
  /\ inner.errors["internal"] = InnerHandler
  /\ \E n \in RouterInvs : InnerRanOff(n)
  /\ \E id \in InnerInvs : invs[id].args = <<OkStatus>>
  /\ \E o \in OuterInvs : invs[o].who = 2 /\ Failed(o)
  /\ \E e \in ErrorInvs : invs[e].h = "E1"

----------------------------------------------------------------------------
\* The positions at which the sink accepted the headers.
HeadsAccepted == {k \in 1..Len(sink) : sink[k].ev = "head" /\ sink[k].ok}

\* The sink was handed the chunk d behind accepted headers.
ChunkBehindHead(d) ==
  \E k1 \in HeadsAccepted, k2 \in 1..Len(sink) :
    k1 < k2 /\ sink[k2].ev = "chunk" /\ sink[k2].data = d

\* The Router wrote diagnostic i after the headers had been emitted: the
\* Response object carries 500 and text/plain, no headers the sink was
\* handed do.
DiagnosticBehindHead(i) ==
  /\ res.status = 500 /\ res.ctype.type = "text/plain"
  /\ \A k \in 1..Len(sink) :
       sink[k].ev = "head" =>
         (sink[k].status # 500 /\ sink[k].ctype.type # "text/plain")

----------------------------------------------------------------------------
\* The Response r with the state of its sink left out of the comparison.
ResponseFields(r) == [r EXCEPT !.writer = None]

\* C37: a WriteHead that fails, with no sink attached or with a sink whose
\* writeHead returns a failure, leaves the Response unchanged: head-written
\* stays false and every header, Content-Type included, is as before the
\* call, so that Content-Type never carries more than one charset suffix.
C37_FailedWriteHeadLeavesResponse ==
  /\ \A i \in 1..Len(calls) :
       (calls[i].op = "writehead" /\ ~IsOk(calls[i].s)) =>
         /\ ~PostOf(i).head_written
         /\ ResponseFields(PostOf(i)) = ResponseFields(calls[i].pre)
  /\ res.ctype.charsets <= 1

----------------------------------------------------------------------------
\* The cookie map of a Response.

MaxCookieCalls == 3

SetCookieNames == {"sid", "theme"}

SetCookieValues == {"1", "2"}

\* Cookie::Cookie(key, value): no Max-Age.
SetCookieOf(key, value) == [key |-> key, value |-> value, max_age |-> None]

\* Cookie::Cookie(key): the deletion variant, empty value and Max-Age 0.
DeletionCookieOf(key) == [key |-> key, value |-> "", max_age |-> 0]

\* flat_hash_map::emplace: inserts only when the key is absent.
Emplace(m, k, v) == IF Contains(m, k) THEN m ELSE Put(m, k, v)

\* Response::Cookie(name, value).
ResponseCookie(m, name, value) == Emplace(m, name, SetCookieOf(name, value))

\* Response::DeleteCookie(name).
ResponseDeleteCookie(m, name) == Emplace(m, name, DeletionCookieOf(name))

\* res.Cookie(name, value); the call and the map after it are recorded.
CallCookie(name, value) ==
  /\ Len(out) < MaxCookieCalls
  /\ res_cookies' = ResponseCookie(res_cookies, name, value)
  /\ out' = Append(out, [op |-> "cookie", name |-> name, value |-> value,
                         after |-> ResponseCookie(res_cookies, name, value)])
  /\ UNCHANGED <<hreq, hres, fs, mini, template_cache, worker, inner>>
  /\ UNCHANGED dispatchVars

\* res.DeleteCookie(name).
CallDeleteCookie(name) ==
  /\ Len(out) < MaxCookieCalls
  /\ res_cookies' = ResponseDeleteCookie(res_cookies, name)
  /\ out' = Append(out, [op |-> "delete", name |-> name, value |-> "",
                         after |-> ResponseDeleteCookie(res_cookies, name)])
  /\ UNCHANGED <<hreq, hres, fs, mini, template_cache, worker, inner>>
  /\ UNCHANGED dispatchVars

\* res.ClearCookies().
CallClearCookies ==
  /\ Len(out) < MaxCookieCalls
  /\ res_cookies' = EmptyMap
  /\ out' = Append(out, [op |-> "clear", name |-> None, value |-> "",
                         after |-> EmptyMap])
  /\ UNCHANGED <<hreq, hres, fs, mini, template_cache, worker, inner>>
  /\ UNCHANGED dispatchVars

CookieNext ==
  \/ \E name \in SetCookieNames, value \in SetCookieValues : CallCookie(name, value)
  \/ \E name \in SetCookieNames : CallDeleteCookie(name)
  \/ CallClearCookies

CookieSpec == Init /\ [][CookieNext]_vars

\* C38: the most recent Cookie(name, value) or DeleteCookie(name) call for a
\* name determines the descriptor stored for it: after DeleteCookie(name) the
\* map holds the deletion variant (empty value, Max-Age 0) even if the name
\* had been set before, and after Cookie(name, value) the stored value is
\* value even if the name was already present.
C38_LastCookieCallWins ==
  \A i \in 1..Len(out) :
    /\ out[i].op = "cookie" =>
         /\ Contains(out[i].after, out[i].name)
         /\ out[i].after[out[i].name].value = out[i].value
    /\ out[i].op = "delete" =>
         /\ Contains(out[i].after, out[i].name)
         /\ out[i].after[out[i].name] = DeletionCookieOf(out[i].name)

----------------------------------------------------------------------------
\* The frame parser of the minification worker.  A buffer is a sequence of
\* bytes, numbers in 0..255.

MaxFrames == 2

MaxSource == 2

HeaderSize == 9

\* SourceType::kHtml and SourceType::kCss.
SourceTypes == {1, 2}

\* A size no buffer of the model reaches; stands for every value of the
\* length field of which one of the five high bytes is not zero.
Huge == 16777216

\* The source text of the model: distinct bytes, none of them a header byte
\* of a frame of the model.
SourceText(n) == [i \in 1..n |-> 64 + i]

\* htobe64 as written to the stream: eight bytes, the high one first.
BigEndian8(n) ==
  <<0, 0, 0, 0, 0, (n \div 65536) % 256, (n \div 256) % 256, n % 256>>

\* What Minify writes to the request stream for one request.
RequestFrame(type, src) == <<type>> \o BigEndian8(Len(src)) \o src

\* Buffer.slice(start, end) and Buffer.slice(start), clamped as in JavaScript.
Slice(b, start, end) ==
  LET lo == IF start < Len(b) THEN start ELSE Len(b)
      hi == IF end < Len(b) THEN end ELSE Len(b)
  IN IF hi <= lo THEN <<>> ELSE SubSeq(b, lo + 1, hi)

SliceFrom(b, start) == Slice(b, start, Len(b))

\* Number(data.readBigUInt64BE(off)).
ReadBigUInt64BE(b, off) ==
  IF \E i \in 1..5 : b[off + i] # 0 THEN Huge
  ELSE b[off + 6] * 65536 + b[off + 7] * 256 + b[off + 8]

ResetState == [type |-> 0, size |-> 0, data |-> <<>>]

\* The 'data' handler on the buffer `data`, already extended by the chunk:
\* the worker afterwards, and whether minifyAndResetState ran.
OnData(w, data) ==
  IF w.state.type = 0
    THEN IF Len(data) >= HeaderSize
      THEN LET type == data[1]
               size == ReadBigUInt64BE(data, 1)
               body == Slice(data, HeaderSize, HeaderSize + size)
           IN IF Len(body) = size
                THEN [w |-> [w EXCEPT !.data = SliceFrom(data, HeaderSize + size),
                                      !.state = ResetState],
                      answered |-> TRUE, type |-> type, src |-> body]
                ELSE [w |-> [w EXCEPT !.data = data,
                                      !.state = [type |-> type, size |-> size,
                                                 data |-> body]],
                      answered |-> FALSE, type |-> 0, src |-> <<>>]
      ELSE [w |-> [w EXCEPT !.data = data],
            answered |-> FALSE, type |-> 0, src |-> <<>>]
  ELSE
    LET prevDataLength == Len(w.state.data)
        body == w.state.data \o Slice(data, 0, w.state.size - prevDataLength)
    IN IF Len(body) = w.state.size
         THEN [w |-> [w EXCEPT !.data = SliceFrom(data, w.state.size - prevDataLength),
                               !.state = ResetState],
               answered |-> TRUE, type |-> w.state.type, src |-> body]
         ELSE [w |-> [w EXCEPT !.data = data, !.state.data = body],
               answered |-> FALSE, type |-> 0, src |-> <<>>]

\* Minify writes one request frame and flushes; it holds the mutex until the
\* answer to it has been read, so no request is outstanding.
WriteRequest(type, n) ==
  /\ Len(worker.sent) < MaxFrames
  /\ Len(out) = Len(worker.sent)
  /\ worker.pipe = <<>>
  /\ worker' = [worker EXCEPT
                  !.pipe = RequestFrame(type, SourceText(n)),
                  !.sent = Append(worker.sent,
                                  [type |-> type, src |-> SourceText(n)])]
  /\ UNCHANGED <<hreq, hres, out, fs, mini, template_cache, res_cookies, inner>>
  /\ UNCHANGED dispatchVars

\* A 'data' event with the first n bytes of the stream as the chunk; an
\* answer is recorded with what minify was given and the buffer left.
DataEvent(n) ==
  /\ n <= Len(worker.pipe)
  /\ \E r \in {OnData(worker, worker.data \o SubSeq(worker.pipe, 1, n))} :
       /\ worker' = [r.w EXCEPT !.pipe = SliceFrom(worker.pipe, n)]
       /\ out' = IF r.answered
                   THEN Append(out, [type |-> r.type, src |-> r.src,
                                     data |-> r.w.data])
                   ELSE out
  /\ UNCHANGED <<hreq, hres, fs, mini, template_cache, res_cookies, inner>>
  /\ UNCHANGED dispatchVars

WorkerNext ==
  \/ \E type \in SourceTypes, n \in 0..MaxSource : WriteRequest(type, n)
  \/ \E n \in 1..(HeaderSize + MaxSource) : DataEvent(n)

WorkerSpec == Init /\ [][WorkerNext]_vars

\* C39: the frame parser of the worker hands to the minifier exactly the
\* `length` source bytes that follow the 9-byte header, with the type of the
\* header, however the bytes of the request frame are split across 'data'
\* events, a body arriving in more than one chunk included; after answering
\* it is positioned at the first byte of the next frame: nothing of the
\* answered frame is left in its buffer.
C39_FrameParserExact ==
  \A j \in 1..Len(out) :
    /\ j <= Len(worker.sent)
    /\ out[j].type = worker.sent[j].type
    /\ out[j].src = worker.sent[j].src
    /\ out[j].data = <<>>

----------------------------------------------------------------------------
\* A thread holds the mutex of Minify.
MutexHeld == \E t \in Threads : InFlight(t)

\* The request and response streams of the Minifier stay as they are.
HandlesKept ==
  /\ mini'.request_file = mini.request_file
  /\ mini'.response_file = mini.response_file

\* C40: at most one worker exists per Minifier: when several threads make
\* their first Minify call concurrently the worker is started exactly once,
\* and the request and response streams used by a Minify call that holds the
\* mutex are never replaced by the start-up of another thread.
C40_OneWorkerStartedOnce ==
  [][/\ mini'.forked <= 1
     /\ MutexHeld => HandlesKept]_vars

====
